---- MODULE Spec2Model ----
(***************************************************************************)
(* Model of the in-memory search runtime of go-map-search: rune codec,     *)
(* normalizer/tokenizer, index store, candidate discovery, scorer, ranker  *)
(* and result materializer, driven through the four public entry points.   *)
(*                                                                         *)
(* Bytes are naturals 0..255, a Go string or []byte is a sequence of       *)
(* bytes, offsets are 0-based as in the source (s[a:b] is Sub(s, a, b)).   *)
(* Document identifiers are naturals 1..NumDocs whose order stands for the *)
(* lexicographic order of the Go strings; 0 is the empty string.           *)
(* Scores are exact rationals counted in units of 1/ScoreUnit.             *)
(***************************************************************************)
EXTENDS Integers, Sequences, FiniteSets, TLC

\* ------------------------------------------------------------------------
\* Capacities of the scratch context and of the index buffer, scaled down.
\* ------------------------------------------------------------------------

\* len(Context.queryNormalized), 2048 in the source
QueryBufCap == 20

\* len(Context.docNormalized), 8192 in the source
DocBufCap == 12

\* len(RuntimeSearch.indexBuffer), 4096 in the source
IndexBufCap == 12

\* len(Context.queryWordStarts), 128 in the source
QueryWordCap == 3

\* len(Context.docWordStarts), 256 in the source
DocWordCap == 3

\* len(wordStarts) in buildIndex, 256 in the source
IndexWordCap == 3

\* len(Context.candidateIDs) and len(Context.candidateSet), 1024 in the source
CandidateCap == 2

\* cacheThreshold of Search and SearchInto, 1000 in the source
cacheThreshold == 1

\* number of document identifiers a corpus can use
NumDocs == 3

\* length of the caller's result buffer
BufLen == 2

\* number of entry-point calls and of corpus edits in one run
MaxCalls == 2

MaxEdits == 1

\* exhaustive sort inputs: candidate arrays up to this length
SmallSortLen == 3

\* ------------------------------------------------------------------------
\* Scoring constants, in units of 1/ScoreUnit
\* ------------------------------------------------------------------------

\* one score point: 10 * lcm(1..16), so that 0.3*m/M and 0.8*k/n are whole
\* numbers of units for every trigram count M and word count n up to 16
ScoreUnit == 10 * 16 * 9 * 5 * 7 * 11 * 13

ExactScore == 2 * ScoreUnit

PrefixScore == ScoreUnit

ExactBonus == ScoreUnit \div 2

\* ------------------------------------------------------------------------
\* Generic helpers
\* ------------------------------------------------------------------------

Min(a, b) == IF a < b THEN a ELSE b

Max(a, b) == IF a > b THEN a ELSE b

\* Go s[a:b]
Sub(s, a, b) == SubSeq(s, a + 1, b)

\* Go s[i]
At(s, i) == s[i + 1]

\* copy of seq s over the first Len(s) cells of the fixed array buf
Store(buf, s) == [i \in 1..Len(buf) |-> IF i <= Len(s) THEN s[i] ELSE buf[i]]

Zeros(n, z) == [i \in 1..n |-> z]

\* all enumeration orders of a finite set (Go map iteration order)
Orders(S) == {f \in [1..Cardinality(S) -> S] : \A i, j \in DOMAIN f : i # j => f[i] # f[j]}

\* ------------------------------------------------------------------------
\* engine.go: word boundary table
\* ------------------------------------------------------------------------

wordBoundaryLUT ==
    {32, 9, 10, 13, 46, 44, 59, 58, 33, 63, 45, 95, 47, 92, 40, 41,
     91, 93, 123, 125, 34, 39}

\* ------------------------------------------------------------------------
\* unsafe.go: memEqual compares the first length bytes
\* ------------------------------------------------------------------------

memEqual(a, b, length) == \A i \in 1..length : a[i] = b[i]

\* ------------------------------------------------------------------------
\* runes.go
\* ------------------------------------------------------------------------

\* decodeRune(s) = <<rune, size>>
decodeRune(s) ==
    IF Len(s) = 0 THEN <<0, 0>>
    ELSE LET b0 == s[1] IN
         IF b0 < 128 THEN <<b0, 1>>
         ELSE IF Len(s) < 2 THEN <<65533, 1>>
         ELSE IF b0 < 224 THEN <<(b0 % 32) * 64 + (s[2] % 64), 2>>
         ELSE IF Len(s) < 3 THEN <<65533, 1>>
         ELSE IF b0 < 240
              THEN <<(b0 % 16) * 4096 + (s[2] % 64) * 64 + (s[3] % 64), 3>>
         ELSE IF Len(s) < 4 THEN <<65533, 1>>
         ELSE <<(b0 % 8) * 262144 + (s[2] % 64) * 4096
                  + (s[3] % 64) * 64 + (s[4] % 64), 4>>

\* encodeRune(buf, r): the bytes written at buf[0..]
encodeRune(r) ==
    IF r < 128 THEN (IF r >= 65 /\ r <= 90 THEN <<r + 32>> ELSE <<r>>)
    ELSE IF r < 2048 THEN <<192 + (r \div 64), 128 + (r % 64)>>
    ELSE IF r < 65536
         THEN <<224 + (r \div 4096), 128 + ((r \div 64) % 64), 128 + (r % 64)>>
    ELSE <<240 + (r \div 262144), 128 + ((r \div 4096) % 64),
           128 + ((r \div 64) % 64), 128 + (r % 64)>>

\* ------------------------------------------------------------------------
\* runtime_search.go: normalizeText, splitWords
\* ------------------------------------------------------------------------

\* a normalizer that swaps the case of every ASCII letter
normalizeLoopSwapCase(text, i, out, maxLen) ==
    [k \in 1..Min(Len(text), maxLen) |->
        IF text[k] >= 65 /\ text[k] <= 90 THEN text[k] + 32
        ELSE IF text[k] >= 97 /\ text[k] <= 122 THEN text[k] - 32
        ELSE text[k]]

RECURSIVE normalizeLoop(_, _, _, _)
\* the loop of normalizeText from source offset i with out already written
normalizeLoop(text, i, out, maxLen) ==
    IF ~(i < Len(text) /\ Len(out) < maxLen) THEN out
    ELSE LET r == At(text, i) IN
         IF r < 128
         THEN normalizeLoop(text, i + 1,
                  Append(out, IF r >= 65 /\ r <= 90 THEN r + 32 ELSE r), maxLen)
         ELSE LET d == decodeRune(Sub(text, i, Len(text))) IN
              normalizeLoop(text, i + d[2],
                  IF Len(out) + 4 <= maxLen THEN out \o encodeRune(d[1]) ELSE out,
                  maxLen)

\* normalizeText(text, buffer, &length): the bytes buffer[0:length]
normalizeText(text, bufLen) == normalizeLoop(text, 0, <<>>, bufLen - 4)

RECURSIVE splitLoopEmptySpans(_, _, _, _, _)
\* the loop of splitWords without the test i > start
splitLoopEmptySpans(t, i, start, spans, maxWords) ==
    IF ~(i < Len(t) /\ Len(spans) < maxWords)
    THEN IF start < Len(t) /\ Len(spans) < maxWords
         THEN Append(spans, <<start, Len(t)>>)
         ELSE spans
    ELSE IF At(t, i) \in wordBoundaryLUT
         THEN splitLoopEmptySpans(t, i + 1, i + 1, Append(spans, <<start, i>>),
                                  maxWords)
         ELSE splitLoopEmptySpans(t, i + 1, start, spans, maxWords)

RECURSIVE splitLoop(_, _, _, _, _)
\* the loop of splitWords; spans is the sequence of <<start, end>> emitted
splitLoop(t, i, start, spans, maxWords) ==
    IF ~(i < Len(t) /\ Len(spans) < maxWords)
    THEN IF start < Len(t) /\ Len(spans) < maxWords
         THEN Append(spans, <<start, Len(t)>>)
         ELSE spans
    ELSE IF At(t, i) \in wordBoundaryLUT
         THEN splitLoop(t, i + 1, i + 1,
                  IF i > start THEN Append(spans, <<start, i>>) ELSE spans,
                  maxWords)
         ELSE splitLoop(t, i + 1, start, spans, maxWords)

\* splitWords(normalizedText, starts, ends, &count): the spans 0..count-1
splitWords(t, maxWords) == splitLoop(t, 0, 0, <<>>, maxWords)

\* ------------------------------------------------------------------------
\* context.go: Context
\* ------------------------------------------------------------------------

\* &Context{}: every array zeroed
NewContext ==
    [queryNormalized |-> Zeros(QueryBufCap, 0),
     docNormalized   |-> Zeros(DocBufCap, 0),
     queryNormLen    |-> 0,
     docNormLen      |-> 0,
     queryWordStarts |-> Zeros(QueryWordCap, 0),
     queryWordEnds   |-> Zeros(QueryWordCap, 0),
     queryWordCount  |-> 0,
     docWordStarts   |-> Zeros(DocWordCap, 0),
     docWordEnds     |-> Zeros(DocWordCap, 0),
     docWordCount    |-> 0,
     candidateIDs    |-> Zeros(CandidateCap, 0),
     candidateTexts  |-> Zeros(CandidateCap, <<>>),
     candidateScores |-> Zeros(CandidateCap, 0),
     candidateCount  |-> 0,
     candidateSet    |-> Zeros(CandidateCap, 0),
     candidateSetLen |-> 0]

\* a reset that leaves candidateSetLen as it is
resetKeepingSet(ctx) ==
    [ctx EXCEPT !.queryNormLen = 0, !.docNormLen = 0, !.queryWordCount = 0,
                !.docWordCount = 0, !.candidateCount = 0]

\* ctx.reset(): the six counters, the arrays keep their contents
reset(ctx) ==
    [ctx EXCEPT !.queryNormLen = 0, !.docNormLen = 0, !.queryWordCount = 0,
                !.docWordCount = 0, !.candidateCount = 0, !.candidateSetLen = 0]

\* ctx.queryNormalized[:ctx.queryNormLen]
queryBytes(ctx) == SubSeq(ctx.queryNormalized, 1, ctx.queryNormLen)

\* ctx.docNormalized[:ctx.docNormLen]
docBytes(ctx) == SubSeq(ctx.docNormalized, 1, ctx.docNormLen)

\* ctx.queryNormalized[queryWordStarts[i]:queryWordEnds[i]], i 0-based
queryWord(ctx, i) ==
    Sub(ctx.queryNormalized, At(ctx.queryWordStarts, i), At(ctx.queryWordEnds, i))

\* ctx.docNormalized[docWordStarts[j]:docWordEnds[j]], j 0-based
docWord(ctx, j) ==
    Sub(ctx.docNormalized, At(ctx.docWordStarts, j), At(ctx.docWordEnds, j))

\* the first two statements of performSearch*: normalize and split the query
prepareQuery(ctx, query) ==
    LET qn    == normalizeText(query, QueryBufCap)
        spans == splitWords(qn, QueryWordCap)
    IN [ctx EXCEPT !.queryNormalized = Store(@, qn),
                   !.queryNormLen    = Len(qn),
                   !.queryWordStarts = Store(@, [k \in 1..Len(spans) |-> spans[k][1]]),
                   !.queryWordEnds   = Store(@, [k \in 1..Len(spans) |-> spans[k][2]]),
                   !.queryWordCount  = Len(spans)]

\* ------------------------------------------------------------------------
\* engine.go: byte helpers and comparator
\* ------------------------------------------------------------------------

containsAnyQueryBytes(doc, query) ==
    IF Len(query) = 0 THEN FALSE
    ELSE \E i \in 1..Len(doc) : \E k \in 1..Len(query) : doc[i] = query[k]

\* compareScoreAndID with the tie on the score broken towards the larger id
compareScoreAndIDLargerFirst(score1, id1, score2, id2) ==
    IF score1 > score2 THEN 1
    ELSE IF score1 < score2 THEN -1
    ELSE IF id1 > id2 THEN 1
    ELSE IF id1 < id2 THEN -1
    ELSE 0

compareScoreAndID(score1, id1, score2, id2) ==
    IF score1 > score2 THEN 1
    ELSE IF score1 < score2 THEN -1
    ELSE IF id1 < id2 THEN 1
    ELSE IF id1 > id2 THEN -1
    ELSE 0

\* ------------------------------------------------------------------------
\* runtime_search.go: substring helpers
\* ------------------------------------------------------------------------

containsTrigram(text, trigram) ==
    IF Len(text) < 3 \/ Len(trigram) # 3 THEN FALSE
    ELSE \E i \in 0..(Len(text) - 3) :
            /\ At(text, i) = trigram[1]
            /\ At(text, i + 1) = trigram[2]
            /\ At(text, i + 2) = trigram[3]

\* a containment test that always succeeds
containsSubsequenceAlways(haystack, needle) == TRUE

containsSubsequence(haystack, needle) ==
    IF Len(needle) = 0 THEN TRUE
    ELSE IF Len(haystack) < Len(needle) THEN FALSE
    ELSE LET last == Len(haystack) - Len(needle)
             firsts == {i \in 0..last : At(haystack, i) = needle[1]}
             firstPos == IF firsts = {} THEN -1
                         ELSE CHOOSE i \in firsts : \A k \in firsts : i <= k
             quick ==
                 IF Len(needle) > 1
                 THEN /\ firstPos # -1
                      /\ \E i \in (firstPos + Len(needle) - 1)..(Len(haystack) - 1) :
                            At(haystack, i) = needle[Len(needle)]
                 ELSE TRUE
         IN quick /\ \E i \in 0..last :
                        memEqual(Sub(haystack, i, Len(haystack)), needle, Len(needle))

\* ------------------------------------------------------------------------
\* runtime_search.go: scorer
\* ------------------------------------------------------------------------

\* scoreSubstring(ctx)
scoreSubstring(ctx) ==
    IF ctx.queryNormLen < 3 THEN 0
    ELSE LET queryLen == ctx.queryNormLen
             stride   == Max(1, queryLen \div 10)
             offsets  == {i \in 0..(queryLen - 3) : i % stride = 0}
             matches  == Cardinality({i \in offsets :
                             containsTrigram(docBytes(ctx),
                                             Sub(ctx.queryNormalized, i, i + 3))})
             maxPossibleMatches == (queryLen - 2) \div stride + 1
         IN IF matches = 0 THEN 0
            ELSE (3 * matches * ScoreUnit) \div (10 * maxPossibleMatches)

RECURSIVE reversedDocLoop(_, _, _)
\* inner loop of scoreReversedWords: does query word i match a document
\* word at index j or later
reversedDocLoop(ctx, i, j) ==
    IF j >= ctx.docWordCount THEN FALSE
    ELSE LET q == queryWord(ctx, i)
             d == docWord(ctx, j)
             diff == IF Len(d) >= Len(q) THEN Len(d) - Len(q) ELSE Len(q) - Len(d)
         IN IF 2 * diff > Min(Len(d), Len(q))
            THEN reversedDocLoop(ctx, i, j + 1)
            ELSE IF containsSubsequence(d, q) \/ containsSubsequence(q, d)
                 THEN TRUE
                 ELSE reversedDocLoop(ctx, i, j + 1)

\* scoreReversedWords(ctx)
scoreReversedWords(ctx) ==
    IF ctx.queryWordCount < 2 THEN 0
    ELSE LET matchCount ==
                 Cardinality({i \in 0..(ctx.queryWordCount - 1) :
                     /\ Len(queryWord(ctx, i)) >= 3
                     /\ reversedDocLoop(ctx, i, 0)})
         IN IF matchCount >= 2
            THEN (8 * matchCount * ScoreUnit) \div (10 * ctx.queryWordCount)
            ELSE 0

RECURSIVE wordMatchLoopStopAtPrefix(_, _, _, _)
\* the inner loop leaving at the first document word in prefix relation
wordMatchLoopStopAtPrefix(ctx, i, j, best) ==
    IF j >= ctx.docWordCount THEN <<best, 0>>
    ELSE LET q == queryWord(ctx, i)
             d == docWord(ctx, j)
         IN IF Len(q) = Len(d) /\ memEqual(q, d, Len(q)) THEN <<ExactScore, 1>>
            ELSE IF Len(q) # Len(d) /\ memEqual(q, d, Min(Len(q), Len(d)))
            THEN <<PrefixScore, 0>>
            ELSE wordMatchLoopStopAtPrefix(ctx, i, j + 1, best)

RECURSIVE wordMatchLoop(_, _, _, _)
\* inner loop of scoreDocument over the document words from index j:
\* <<bestMatchForThisQuery, 1 if an exact match was counted else 0>>
wordMatchLoop(ctx, i, j, best) ==
    IF j >= ctx.docWordCount THEN <<best, 0>>
    ELSE LET q == queryWord(ctx, i)
             d == docWord(ctx, j)
             queryLen == Len(q)
             docLen   == Len(d)
         IN IF d[1] # q[1] /\ docLen # queryLen
            THEN wordMatchLoop(ctx, i, j + 1, best)
            ELSE IF queryLen = docLen
                 THEN IF memEqual(q, d, queryLen)
                      THEN <<ExactScore, 1>>
                      ELSE wordMatchLoop(ctx, i, j + 1, best)
                 ELSE LET prefixScore ==
                              IF docLen > queryLen
                              THEN IF memEqual(q, d, queryLen) THEN PrefixScore ELSE 0
                              ELSE IF memEqual(q, d, docLen) THEN PrefixScore ELSE 0
                      IN wordMatchLoop(ctx, i, j + 1,
                             IF prefixScore > best THEN prefixScore ELSE best)

RECURSIVE queryWordLoop(_, _, _, _)
\* outer loop of scoreDocument: <<totalScore, exactMatches>>
queryWordLoop(ctx, i, totalScore, exactMatches) ==
    IF i >= ctx.queryWordCount THEN <<totalScore, exactMatches>>
    ELSE LET m == wordMatchLoop(ctx, i, 0, 0)
         IN queryWordLoop(ctx, i + 1, totalScore + m[1], exactMatches + m[2])

\* lines 572-592 of scoreDocument, w = <<totalScore, exactMatches>> being
\* what the word matching loop computed
\* finishScore with the bonus counted for every exact match
finishScoreBonusEach(ctx, w) ==
    LET exactMatches == w[2]
    IN IF exactMatches = ctx.queryWordCount
       THEN w[1] + exactMatches * ExactBonus
       ELSE w[1]

finishScore(ctx, w) ==
    LET exactMatches == w[2]
    IN IF exactMatches = ctx.queryWordCount
       THEN w[1] + (exactMatches - 1) * ExactBonus
       ELSE LET t1 == IF exactMatches > 1
                      THEN w[1] + (exactMatches - 1) * ExactBonus ELSE w[1]
                t2 == IF ctx.queryNormLen >= 3 /\ exactMatches = 0 /\ t1 = 0
                      THEN t1 + scoreSubstring(ctx) ELSE t1
            IN IF /\ ctx.queryWordCount >= 2
                  /\ exactMatches < ctx.queryWordCount
                  /\ t2 < ctx.queryWordCount * ScoreUnit
               THEN t2 + scoreReversedWords(ctx)
               ELSE t2

\* the context with the normalized document dn in docNormalized
withDoc(ctx, dn) ==
    [ctx EXCEPT !.docNormalized = Store(@, dn), !.docNormLen = Len(dn)]

\* the context with the document word spans in docWordStarts, docWordEnds
withDocWords(ctx, spans) ==
    [ctx EXCEPT !.docWordStarts = Store(@, [k \in 1..Len(spans) |-> spans[k][1]]),
                !.docWordEnds   = Store(@, [k \in 1..Len(spans) |-> spans[k][2]]),
                !.docWordCount  = Len(spans)]

\* lines 519-592 of scoreDocument: split the document, match the words
scoreSplit(ctx) == [score |-> finishScore(ctx, queryWordLoop(ctx, 0, 0, 0)), ctx |-> ctx]

\* lines 514-592 of scoreDocument, the document being normalized
scoreNormalized(ctx) ==
    IF ~containsAnyQueryBytes(docBytes(ctx), queryBytes(ctx))
    THEN [score |-> 0, ctx |-> ctx]
    ELSE CHOOSE r \in {scoreSplit(c) :
                          c \in {withDocWords(ctx, splitWords(docBytes(ctx), DocWordCap))}} :
             TRUE

\* scoreDocument(text, ctx): the score and the context it leaves
scoreDocument(text, ctx) ==
    IF Len(text) = 0 \/ ctx.queryWordCount = 0 THEN [score |-> 0, ctx |-> ctx]
    ELSE CHOOSE r \in {scoreNormalized(c) :
                          c \in {withDoc(ctx, normalizeText(text, DocBufCap))}} : TRUE

\* scoreDocument with lines 514-517 (the byte-presence exit) left out
scoreDocumentAllSteps(text, ctx) ==
    IF Len(text) = 0 \/ ctx.queryWordCount = 0 THEN [score |-> 0, ctx |-> ctx]
    ELSE CHOOSE r \in
             {scoreSplit(withDocWords(c, splitWords(docBytes(c), DocWordCap))) :
                 c \in {withDoc(ctx, normalizeText(text, DocBufCap))}} : TRUE

\* keepCandidate with the record appended when the score is not negative
keepCandidateNotNegative(r, id, text) ==
    IF r.score >= 0
    THEN [r.ctx EXCEPT !.candidateIDs[r.ctx.candidateCount + 1] = id,
                       !.candidateTexts[r.ctx.candidateCount + 1] = text,
                       !.candidateScores[r.ctx.candidateCount + 1] = r.score,
                       !.candidateCount = @ + 1]
    ELSE r.ctx

\* the candidate arrays after a document was scored: the record is
\* appended when the score is positive
keepCandidate(r, id, text) ==
    IF r.score > 0
    THEN [r.ctx EXCEPT !.candidateIDs[r.ctx.candidateCount + 1]    = id,
                       !.candidateTexts[r.ctx.candidateCount + 1]  = text,
                       !.candidateScores[r.ctx.candidateCount + 1] = r.score,
                       !.candidateCount                            = @ + 1]
    ELSE r.ctx

\* ------------------------------------------------------------------------
\* runtime_search.go: uncached candidate discovery
\* ------------------------------------------------------------------------

RECURSIVE searchDirectLoop(_, _, _, _, _)
\* the range loop of searchDirect, at position k of the enumeration order
searchDirectLoop(data, order, k, hasLongWords, ctx) ==
    IF k > Len(order) THEN ctx
    ELSE IF ctx.candidateCount >= Len(ctx.candidateIDs) THEN ctx
    ELSE IF hasLongWords /\ Len(data[order[k]]) < ctx.queryNormLen \div 2
    THEN searchDirectLoop(data, order, k + 1, hasLongWords, ctx)
    ELSE CHOOSE c \in {searchDirectLoop(data, order, k + 1, hasLongWords,
                                         keepCandidate(r, order[k], data[order[k]])) :
                          r \in {scoreDocument(data[order[k]], ctx)}} : TRUE

\* searchDirect(data, ctx) when the map is enumerated in the given order
searchDirect(data, order, ctx) ==
    LET hasLongWords ==
            \E i \in 0..(ctx.queryWordCount - 1) :
                At(ctx.queryWordEnds, i) - At(ctx.queryWordStarts, i) > 10
    IN searchDirectLoop(data, order, 1, hasLongWords, ctx)

\* ------------------------------------------------------------------------
\* engine.go, runtime_search.go: index store
\* ------------------------------------------------------------------------

\* NewRuntimeSearch(): &RuntimeSearch{}, the three maps nil
NewRuntimeSearch ==
    [cachedDataNil  |-> TRUE,
     cachedData     |-> <<>>,
     cachedWordMap  |-> <<>>,
     cachedTrigrams |-> <<>>,
     indexBuffer    |-> Zeros(IndexBufCap, 0),
     indexBufferLen |-> 0]

\* a posting that is only made when the key is new
addPostingFirstOnly(m, key, docID) ==
    IF key \in DOMAIN m THEN m ELSE m @@ (key :> <<docID>>)

\* m[key] = append(m[key], docID), or m[key] = []string{docID}
addPosting(m, key, docID) ==
    IF key \in DOMAIN m THEN [m EXCEPT ![key] = Append(@, docID)]
    ELSE m @@ (key :> <<docID>>)

RECURSIVE indexWords(_, _, _, _, _)
\* the word loop of buildIndex from span i (1-based position in spans)
indexWords(m, norm, spans, i, docID) ==
    IF i > Len(spans) THEN m
    ELSE LET start == spans[i][1]
             end   == spans[i][2]
         IN indexWords(IF start < end /\ end <= Len(norm)
                       THEN addPosting(m, Sub(norm, start, end), docID) ELSE m,
                       norm, spans, i + 1, docID)

RECURSIVE indexTrigrams(_, _, _, _, _)
\* the trigram loop of buildIndex from offset i
indexTrigrams(m, norm, i, stride, docID) ==
    IF i > Len(norm) - 3 THEN m
    ELSE indexTrigrams(addPosting(m, Sub(norm, i, i + 3), docID),
                       norm, i + stride, stride, docID)

RECURSIVE buildIndexLoop(_, _, _, _)
\* the range loop of buildIndex, at position k of the enumeration order
buildIndexLoop(rs, data, order, k) ==
    IF k > Len(order) THEN rs
    ELSE LET docID == order[k]
             norm  == normalizeText(data[docID], IndexBufCap)
             spans == splitWords(norm, IndexWordCap)
         IN buildIndexLoop(
                [rs EXCEPT
                   !.cachedData     = @ @@ (docID :> data[docID]),
                   !.indexBuffer    = Store(@, norm),
                   !.indexBufferLen = Len(norm),
                   !.cachedWordMap  = indexWords(@, norm, spans, 1, docID),
                   !.cachedTrigrams =
                       IF Len(norm) >= 3
                       THEN indexTrigrams(@, norm, 0, Max(1, Len(norm) \div 100), docID)
                       ELSE @],
                data, order, k + 1)

\* buildIndex(data) when the map is enumerated in the given order
buildIndex(rs, data, order) ==
    buildIndexLoop([rs EXCEPT !.cachedDataNil = FALSE, !.cachedData = <<>>,
                              !.cachedWordMap = <<>>, !.cachedTrigrams = <<>>],
                   data, order, 1)

\* one turn of the range loop of buildIndex, for document docID, with an
\* index buffer of bufLen bytes and word arrays of wordCap entries
indexDocument(rs, data, docID, bufLen, wordCap) ==
    LET norm  == normalizeText(data[docID], bufLen)
        spans == splitWords(norm, wordCap)
    IN [rs EXCEPT
          !.cachedData     = @ @@ (docID :> data[docID]),
          !.indexBuffer    = Store(@, norm),
          !.indexBufferLen = Len(norm),
          !.cachedWordMap  = indexWords(@, norm, spans, 1, docID),
          !.cachedTrigrams =
              IF Len(norm) >= 3
              THEN indexTrigrams(@, norm, 0, Max(1, Len(norm) \div 100), docID)
              ELSE @]

RECURSIVE buildIndexSized(_, _, _, _, _, _, _)
\* the turns first..last of the range loop of buildIndex, in order. The
\* range is halved, and the buffer length (never negative) is read on entry,
\* so that the index of the first half is computed before the second half
\* starts and the evaluation does not nest one level per document.
buildIndexSized(rs, data, order, first, last, bufLen, wordCap) ==
    IF first > last \/ rs.indexBufferLen < 0 THEN rs
    ELSE IF first = last THEN indexDocument(rs, data, order[first], bufLen, wordCap)
    ELSE buildIndexSized(
             buildIndexSized(rs, data, order, first, (first + last) \div 2,
                             bufLen, wordCap),
             data, order, (first + last) \div 2 + 1, last, bufLen, wordCap)

\* len(indexBuffer) and len(queryNormalized) of the probes
FindBufLen == 120

\* the index buildIndex leaves for a corpus enumerated in the given order
findIndex(d, order) ==
    buildIndexSized([cachedDataNil |-> FALSE, cachedData |-> <<>>,
                     cachedWordMap |-> <<>>, cachedTrigrams |-> <<>>,
                     indexBuffer |-> Zeros(FindBufLen, 0), indexBufferLen |-> 0],
                    d, order, 1, Len(order), FindBufLen, 256)

\* the context performSearch* hands to findCandidates when the normalized
\* query is qn and its word spans are spans, with a candidate set of setCap
\* entries
findContextOf(qn, spans, setCap) ==
    [NewContext EXCEPT
       !.queryNormalized = Store(Zeros(FindBufLen, 0), qn),
       !.queryNormLen    = Len(qn),
       !.queryWordStarts = Store(@, [k \in 1..Len(spans) |-> spans[k][1]]),
       !.queryWordEnds   = Store(@, [k \in 1..Len(spans) |-> spans[k][2]]),
       !.queryWordCount  = Len(spans),
       !.candidateSet    = Zeros(setCap, 0)]

\* that context for a query q
findContext(q, setCap) ==
    findContextOf(normalizeText(q, FindBufLen),
                  splitWords(normalizeText(q, FindBufLen), QueryWordCap), setCap)

\* the sample loop comparing one entry more before it stops
staleLoopOneMore(rs, data, order, k, maxCheck) ==
    \E j \in 1..Min(Len(order), maxCheck + 1) :
        order[j] \notin DOMAIN rs.cachedData \/ rs.cachedData[order[j]] # data[order[j]]

RECURSIVE staleLoop(_, _, _, _, _)
\* the sample loop of searchWithCache, at position k with checkCount done
staleLoop(rs, data, order, k, maxCheck) ==
    IF k > Len(order) THEN FALSE
    ELSE LET id == order[k]
         IN IF id \notin DOMAIN rs.cachedData \/ rs.cachedData[id] # data[id]
            THEN TRUE
            ELSE IF k >= maxCheck THEN FALSE
            ELSE staleLoop(rs, data, order, k + 1, maxCheck)

RECURSIVE staleChecked(_, _, _, _, _)
\* the number of entries of data the sample loop has compared when it stops
staleChecked(rs, data, order, k, maxCheck) ==
    IF k > Len(order) THEN k - 1
    ELSE LET id == order[k]
         IN IF id \notin DOMAIN rs.cachedData \/ rs.cachedData[id] # data[id]
            THEN k
            ELSE IF k >= maxCheck THEN k
            ELSE staleChecked(rs, data, order, k + 1, maxCheck)

\* the number of entries searchWithCache compares in its staleness check
sampleChecked(rs, data, order) ==
    IF rs.cachedDataNil \/ Cardinality(DOMAIN rs.cachedData) # Cardinality(DOMAIN data)
    THEN 0
    ELSE staleChecked(rs, data, order, 1, Min(Cardinality(DOMAIN data) \div 10, 5))

\* the staleness check without the comparison of the two map sizes
needsRebuildNoSize(rs, data, order) ==
    \/ rs.cachedDataNil
    \/ staleLoop(rs, data, order, 1, Min(Cardinality(DOMAIN data) \div 10, 5))

\* a staleness check that reports every cache stale
needsRebuildAlways(rs, data, order) == TRUE

\* needsRebuild of searchWithCache when data is enumerated in the given order
needsRebuild(rs, data, order) ==
    \/ rs.cachedDataNil
    \/ Cardinality(DOMAIN rs.cachedData) # Cardinality(DOMAIN data)
    \/ staleLoop(rs, data, order, 1, Min(Cardinality(DOMAIN data) \div 10, 5))

\* ------------------------------------------------------------------------
\* runtime_search.go: cached candidate discovery
\* ------------------------------------------------------------------------

RECURSIVE binarySearch(_, _, _, _)
\* the binary search of addToCandidateSet over set[left:right], 0-based
binarySearch(set, docID, left, right) ==
    IF ~(left < right) THEN left
    ELSE LET mid == (left + right) \div 2
         IN IF At(set, mid) < docID
            THEN binarySearch(set, docID, mid + 1, right)
            ELSE binarySearch(set, docID, left, mid)

\* the body of the loop of addToCandidateSet without the test for an
\* identifier already in the set
insertCandidateNoDedup(ctx, docID) ==
    LET n    == ctx.candidateSetLen
        left == binarySearch(ctx.candidateSet, docID, 0, n)
    IN [ctx EXCEPT
          !.candidateSet =
              [p \in 1..Len(@) |->
                  IF p - 1 < left THEN @[p]
                  ELSE IF p - 1 = left THEN docID
                  ELSE IF p - 1 <= n THEN @[p - 1]
                  ELSE @[p]],
          !.candidateSetLen = n + 1]

\* the body of the loop of addToCandidateSet for one docID when the set has
\* room: binary search, skip when found, else shift the tail and store
insertCandidate(ctx, docID) ==
    LET n    == ctx.candidateSetLen
        left == binarySearch(ctx.candidateSet, docID, 0, n)
    IN IF left < n /\ At(ctx.candidateSet, left) = docID
       THEN ctx
       ELSE [ctx EXCEPT
               !.candidateSet =
                   [p \in 1..Len(@) |->
                       IF p - 1 < left THEN @[p]
                       ELSE IF p - 1 = left THEN docID
                       ELSE IF p - 1 <= n THEN @[p - 1]
                       ELSE @[p]],
               !.candidateSetLen = n + 1]

RECURSIVE addToCandidateSet(_, _, _)
\* addToCandidateSet(docIDs, ctx) from position k of docIDs
addToCandidateSet(docIDs, k, ctx) ==
    IF k > Len(docIDs) \/ ctx.candidateSetLen >= Len(ctx.candidateSet) THEN ctx
    ELSE addToCandidateSet(docIDs, k + 1, insertCandidate(ctx, docIDs[k]))

RECURSIVE rarestLoop(_, _, _, _, _)
\* first loop of findCandidates: the rarest indexed query word, <<>> if none
rarestLoop(ctx, rs, i, rarest, minCount) ==
    IF i >= ctx.queryWordCount THEN rarest
    ELSE LET w == queryWord(ctx, i)
         IN IF w \in DOMAIN rs.cachedWordMap /\ Len(rs.cachedWordMap[w]) < minCount
            THEN rarestLoop(ctx, rs, i + 1, w, Len(rs.cachedWordMap[w]))
            ELSE rarestLoop(ctx, rs, i + 1, rarest, minCount)

RECURSIVE prefixLoopAnyLength(_, _, _, _, _)
\* the range over cachedWordMap without the limit of 10 bytes on the
\* difference of the two lengths
prefixLoopAnyLength(ctx, rs, i, order, k) ==
    IF k > Len(order) THEN ctx
    ELSE LET word      == order[k]
             docIDs    == rs.cachedWordMap[word]
             q         == queryWord(ctx, i)
             wordLen   == Len(word)
             prefixLen == Len(q)
             hit ==
                 IF wordLen > prefixLen
                 THEN memEqual(word, q, prefixLen)
                 ELSE IF prefixLen > wordLen
                 THEN memEqual(q, word, wordLen)
                 ELSE FALSE
         IN prefixLoopAnyLength(IF hit THEN addToCandidateSet(docIDs, 1, ctx) ELSE ctx,
                                rs, i, order, k + 1)

RECURSIVE prefixLoop(_, _, _, _, _)
\* the range over cachedWordMap for query word i, at position k of the
\* enumeration order of the indexed words
prefixLoop(ctx, rs, i, order, k) ==
    IF k > Len(order) THEN ctx
    ELSE LET word      == order[k]
             docIDs    == rs.cachedWordMap[word]
             q         == queryWord(ctx, i)
             wordLen   == Len(word)
             prefixLen == Len(q)
             hit ==
                 IF wordLen > prefixLen /\ wordLen - prefixLen <= 10
                 THEN memEqual(word, q, prefixLen)
                 ELSE IF prefixLen > wordLen /\ prefixLen - wordLen <= 10
                 THEN memEqual(q, word, wordLen)
                 ELSE FALSE
         IN prefixLoop(IF hit THEN addToCandidateSet(docIDs, 1, ctx) ELSE ctx,
                       rs, i, order, k + 1)

\* body of the second loop of findCandidates for a query word that is not
\* the rarest one, the word map enumerated in the given order
otherWord(ctx, rs, i, order) ==
    LET q  == queryWord(ctx, i)
        c1 == IF q \in DOMAIN rs.cachedWordMap
              THEN addToCandidateSet(rs.cachedWordMap[q], 1, ctx) ELSE ctx
    IN prefixLoop(c1, rs, i, order, 1)

RECURSIVE otherWordsLoop(_, _, _, _)
\* second loop of findCandidates from query word i: the set of contexts it
\* can leave, one range order of the word map being drawn per query word
otherWordsLoop(S, rs, i, rarest) ==
    IF S = {} THEN {}
    ELSE LET qwc == (CHOOSE c \in S : TRUE).queryWordCount
         IN IF i >= qwc THEN S
            ELSE otherWordsLoop(
                   UNION {IF queryWord(c, i) = rarest THEN {c}
                          ELSE {otherWord(c, rs, i, o) :
                                    o \in Orders(DOMAIN rs.cachedWordMap)} : c \in S},
                   rs, i + 1, rarest)

RECURSIVE trigramLoop(_, _, _)
\* the trigram fallback loop of findCandidates from offset i
trigramLoop(ctx, rs, i) ==
    IF i > ctx.queryNormLen - 3 THEN ctx
    ELSE LET trigram == Sub(ctx.queryNormalized, i, i + 3)
         IN IF trigram \in DOMAIN rs.cachedTrigrams
            THEN LET c == addToCandidateSet(rs.cachedTrigrams[trigram], 1, ctx)
                 IN IF c.candidateSetLen > 100 THEN c
                    ELSE trigramLoop(c, rs, i + 2)
            ELSE trigramLoop(ctx, rs, i + 2)

\* findCandidates(ctx): the contexts it can leave
findCandidates(ctx, rs) ==
    LET c0     == [ctx EXCEPT !.candidateSetLen = 0]
        rarest == rarestLoop(c0, rs, 0, <<>>, 2147483647)
        c1     == IF rarest # <<>> /\ rarest \in DOMAIN rs.cachedWordMap
                  THEN addToCandidateSet(rs.cachedWordMap[rarest], 1, c0) ELSE c0
    IN {IF c.candidateSetLen = 0 /\ c.queryNormLen >= 3 /\ c.queryNormLen <= 100
        THEN trigramLoop(c, rs, 0) ELSE c : c \in otherWordsLoop({c1}, rs, 0, rarest)}

RECURSIVE scoreCandidatesLoop(_, _, _)
\* the loop of scoreCandidates from index i of the candidate set
scoreCandidatesLoop(ctx, rs, i) ==
    IF ~(i < ctx.candidateSetLen /\ ctx.candidateCount < Len(ctx.candidateIDs))
    THEN ctx
    ELSE IF At(ctx.candidateSet, i) \in DOMAIN rs.cachedData
    THEN scoreCandidatesLoop(
             keepCandidate(scoreDocument(rs.cachedData[At(ctx.candidateSet, i)], ctx),
                           At(ctx.candidateSet, i),
                           rs.cachedData[At(ctx.candidateSet, i)]),
             rs, i + 1)
    ELSE scoreCandidatesLoop(ctx, rs, i + 1)

\* scoreCandidates(ctx)
scoreCandidates(ctx, rs) ==
    scoreCandidatesLoop([ctx EXCEPT !.candidateCount = 0], rs, 0)

\* searchWithCache(data, ctx): the set of <<index, context>> it can leave
searchWithCache(rs, data, ctx) ==
    LET orders == Orders(DOMAIN data)
        built  == UNION {IF needsRebuild(rs, data, o)
                         THEN {[rs |-> buildIndex(rs, data, b), rebuilt |-> TRUE] :
                                  b \in orders}
                         ELSE {[rs |-> rs, rebuilt |-> FALSE]} : o \in orders}
    IN UNION {{[rs |-> r.rs, ctx |-> scoreCandidates(c, r.rs), rebuilt |-> r.rebuilt] :
                  c \in findCandidates(ctx, r.rs)} : r \in built}

\* ------------------------------------------------------------------------
\* runtime_search.go: ranker
\* ------------------------------------------------------------------------

\* moveCandidate with the text left behind
moveCandidateNoText(ctx, i, j) ==
    [ctx EXCEPT !.candidateScores[j + 1] = ctx.candidateScores[i + 1],
                !.candidateIDs[j + 1]    = ctx.candidateIDs[i + 1]]

\* candidate record i (0-based) moved to slot j (0-based)
moveCandidate(ctx, i, j) ==
    [ctx EXCEPT !.candidateScores[j + 1] = ctx.candidateScores[i + 1],
                !.candidateIDs[j + 1]    = ctx.candidateIDs[i + 1],
                !.candidateTexts[j + 1]  = ctx.candidateTexts[i + 1]]

\* the saved record <<score, id, text>> written to slot j (0-based)
putCandidate(ctx, j, score, id, text) ==
    [ctx EXCEPT !.candidateScores[j + 1] = score,
                !.candidateIDs[j + 1]    = id,
                !.candidateTexts[j + 1]  = text]

\* a swap of the scores and ids that leaves the texts where they are
swapCandidatesNoText(ctx, i, j) ==
    [ctx EXCEPT !.candidateScores[i + 1] = ctx.candidateScores[j + 1],
                !.candidateScores[j + 1] = ctx.candidateScores[i + 1],
                !.candidateIDs[i + 1]    = ctx.candidateIDs[j + 1],
                !.candidateIDs[j + 1]    = ctx.candidateIDs[i + 1]]

\* swapCandidates(ctx, i, j)
swapCandidates(ctx, i, j) ==
    [ctx EXCEPT !.candidateScores[i + 1] = ctx.candidateScores[j + 1],
                !.candidateScores[j + 1] = ctx.candidateScores[i + 1],
                !.candidateIDs[i + 1]    = ctx.candidateIDs[j + 1],
                !.candidateIDs[j + 1]    = ctx.candidateIDs[i + 1],
                !.candidateTexts[i + 1]  = ctx.candidateTexts[j + 1],
                !.candidateTexts[j + 1]  = ctx.candidateTexts[i + 1]]

\* the shift condition shared by insertionSort and shellSort
shiftsBefore(ctx, j, score, id) ==
    \/ At(ctx.candidateScores, j) < score
    \/ (At(ctx.candidateScores, j) = score /\ At(ctx.candidateIDs, j) > id)

RECURSIVE gapShift(_, _, _, _, _, _)
\* inner loop of shellSort (j >= gap) and of insertionSort (there with
\* j + 1 for j, gap 1 and j + 1 >= left + 1): shifts records right by gap
\* while they sort after the saved one; <<ctx, j>> with j the slot left free
gapShift(ctx, j, gap, low, score, id) ==
    IF j >= low /\ shiftsBefore(ctx, j - gap, score, id)
    THEN gapShift(moveCandidate(ctx, j - gap, j), j - gap, gap, low, score, id)
    ELSE <<ctx, j>>

\* the saved record written to the slot the inner loop left free
placeSaved(s, score, id, text) == putCandidate(s[1], s[2], score, id, text)

\* one turn of the for loop of insertionSort (gap 1, lower bound left) and
\* of shellSort (lower bound gap): record i is saved, the records before it
\* are shifted, the saved record is written back
sortTurn(ctx, i, gap, low) ==
    placeSaved(gapShift(ctx, i, gap, low, At(ctx.candidateScores, i),
                        At(ctx.candidateIDs, i)),
               At(ctx.candidateScores, i), At(ctx.candidateIDs, i),
               At(ctx.candidateTexts, i))

RECURSIVE sortTurns(_, _, _, _, _)
\* the turns i = first..last of that for loop, in order. The range is
\* halved, and the count (never negative) is read on entry, so that the
\* context of the first half is computed before the second half starts
\* and the evaluation does not nest one level per turn.
sortTurns(ctx, first, last, gap, low) ==
    IF first > last \/ ctx.candidateCount < 0 THEN ctx
    ELSE IF first = last THEN sortTurn(ctx, first, gap, low)
    ELSE sortTurns(sortTurns(ctx, first, (first + last) \div 2, gap, low),
                   (first + last) \div 2 + 1, last, gap, low)

\* insertionSort(ctx, left, right)
insertionSort(ctx, left, right) == sortTurns(ctx, left + 1, right, 1, left + 1)

\* one pass of shellSort with the given gap
shellPass(ctx, gap) == sortTurns(ctx, gap, ctx.candidateCount - 1, gap, gap)

\* shellSort(ctx): gaps 5, 3, 1
shellSort(ctx) == shellPass(shellPass(shellPass(ctx, 5), 3), 1)

\* one turn of the loop of partition3Way on p = <<ctx, lt, i, gt>>
partitionTurn(p, cmp) ==
    IF cmp > 0 THEN <<swapCandidates(p[1], p[2], p[3]), p[2] + 1, p[3] + 1, p[4]>>
    ELSE IF cmp < 0 THEN <<swapCandidates(p[1], p[3], p[4] - 1), p[2], p[3], p[4] - 1>>
    ELSE <<p[1], p[2], p[3] + 1, p[4]>>

RECURSIVE partitionLoop(_, _, _, _)
\* the loop of partition3Way: turns more turns from p; every turn moves i
\* or gt one step towards the other, so the loop makes gt - i turns (p is
\* read on entry for the same reason as in sortTurns)
partitionLoop(p, turns, pivot, pivotID) ==
    IF turns <= 0 \/ p[4] < p[3] THEN p
    ELSE IF turns = 1
    THEN partitionTurn(p, compareScoreAndID(At(p[1].candidateScores, p[3]),
                                            At(p[1].candidateIDs, p[3]),
                                            pivot, pivotID))
    ELSE partitionLoop(partitionLoop(p, turns \div 2, pivot, pivotID),
                       turns - turns \div 2, pivot, pivotID)

\* the <<lt, gt - 1>> partition3Way returns, with the context it leaves
partitionResult(p) == <<p[1], p[2], p[4] - 1>>

\* partition3Way(ctx, low, high) = <<ctx, lt, gt>>
partition3Way(ctx, low, high) ==
    partitionResult(partitionLoop(<<ctx, low, low + 1, high + 1>>, high - low,
                                  At(ctx.candidateScores, low),
                                  At(ctx.candidateIDs, low)))

RECURSIVE quickSort(_, _, _)
\* quickSort(ctx, low, high)
quickSort(ctx, low, high) ==
    IF ~(low < high) THEN ctx
    ELSE IF high - low < 10 THEN insertionSort(ctx, low, high)
    ELSE LET p  == partition3Way(ctx, low, high)
             lt == p[2]
             gt == p[3]
         IN IF lt - low < high - gt
            THEN quickSort(quickSort(p[1], low, lt - 1), gt + 1, high)
            ELSE quickSort(quickSort(p[1], gt + 1, high), low, lt - 1)

\* sortCandidates(ctx)
sortCandidates(ctx) ==
    LET n == ctx.candidateCount
    IN IF n <= 1 THEN ctx
       ELSE IF n <= 10 THEN insertionSort(ctx, 0, n - 1)
       ELSE IF n <= 50 THEN shellSort(ctx)
       ELSE quickSort(ctx, 0, n - 1)

\* ------------------------------------------------------------------------
\* runtime_search.go: result materializer
\* ------------------------------------------------------------------------

\* SearchResult number i (1-based) of the candidate arrays
candidateResult(ctx, i) ==
    [ID |-> ctx.candidateIDs[i], Text |-> ctx.candidateTexts[i],
     Score |-> ctx.candidateScores[i]]

\* the zero SearchResult
NoResult == [ID |-> 0, Text |-> <<>>, Score |-> 0]

\* a nil slice
NilSlice == [store |-> "nil", items |-> <<>>, len |-> 0, ref |-> 0]

\* convertToResultsOneAlloc with every candidate copied, whatever maxResults
convertToResultsOneAllocUncapped(ref, ctx, maxResults) ==
    LET limit == ctx.candidateCount
    IN IF limit = 0 THEN NilSlice
       ELSE [store |-> "heap",
             items |-> [i \in 1..limit |-> candidateResult(ctx, i)],
             len   |-> limit,
             ref   |-> 0]

\* convertToResultsOneAlloc with the slice taken over the candidate arrays
\* of the context instead of a new array
convertToResultsOneAllocAliased(ref, ctx, maxResults) ==
    LET limit == Min(ctx.candidateCount, maxResults)
    IN IF limit = 0 THEN NilSlice
       ELSE [store |-> "ctx", items |-> <<>>, len |-> limit, ref |-> ref]

\* convertToResultsOneAlloc(ctx, maxResults): a slice over a new array
\* holding copies of the records; ref is the number of the context ctx
convertToResultsOneAlloc(ref, ctx, maxResults) ==
    LET limit == Min(ctx.candidateCount, maxResults)
    IN IF limit = 0 THEN NilSlice
       ELSE [store |-> "heap",
             items |-> [i \in 1..limit |-> candidateResult(ctx, i)],
             len   |-> limit,
             ref   |-> 0]

\* convertToResultsZeroAlloc with the rest of the buffer cleared
convertToResultsZeroAllocClearing(ctx, maxResults, resultBuffer) ==
    LET l0    == Min(ctx.candidateCount, maxResults)
        limit == IF l0 > Len(resultBuffer) THEN Len(resultBuffer) ELSE l0
    IN IF limit = 0 THEN <<resultBuffer, NilSlice>>
       ELSE <<[i \in 1..Len(resultBuffer) |->
                  IF i <= limit THEN candidateResult(ctx, i) ELSE NoResult],
              [store |-> "buffer", items |-> <<>>, len |-> limit, ref |-> 0]>>

\* convertToResultsZeroAlloc(ctx, maxResults, resultBuffer):
\* <<the buffer after the copy, the slice returned>>
convertToResultsZeroAlloc(ctx, maxResults, resultBuffer) ==
    LET l0    == Min(ctx.candidateCount, maxResults)
        limit == IF l0 > Len(resultBuffer) THEN Len(resultBuffer) ELSE l0
    IN IF limit = 0 THEN <<resultBuffer, NilSlice>>
       ELSE <<[i \in 1..Len(resultBuffer) |->
                  IF i <= limit THEN candidateResult(ctx, i) ELSE resultBuffer[i]],
              [store |-> "buffer", items |-> <<>>, len |-> limit, ref |-> 0]>>

\* ------------------------------------------------------------------------
\* runtime_search.go: performSearchOneAlloc, performSearchZeroAlloc
\* ------------------------------------------------------------------------

\* the candidate records 0..candidateCount-1 of a context
rankedCandidates(ctx) == [i \in 1..ctx.candidateCount |-> candidateResult(ctx, i)]

\* lines 20-30 of performSearch*: the set of <<index, sorted context>> the
\* search can leave, one per enumeration order of the maps it ranges over
searchAndSort(rs, ctx0, data, query, useCache) ==
    LET ctx == prepareQuery(ctx0, query)
        found == IF useCache THEN searchWithCache(rs, data, ctx)
                 ELSE {[rs |-> rs, ctx |-> searchDirect(data, o, ctx), rebuilt |-> FALSE] :
                          o \in Orders(DOMAIN data)}
    IN {[rs |-> f.rs, ctx |-> sortCandidates(f.ctx), rebuilt |-> f.rebuilt] :
           f \in found}

\* performSearchOneAlloc: the outcomes of one call; ctx is the context put
\* back into the pool, ranked the candidate records the results came from
performSearchOneAlloc(rs, ref, ctx0, data, query, maxResults, useCache) ==
    {[rs     |-> f.rs,
      ctx    |-> reset(f.ctx),
      ranked |-> rankedCandidates(f.ctx),
      rebuilt |-> f.rebuilt,
      buffer |-> <<>>,
      slice  |-> convertToResultsOneAlloc(ref, f.ctx, maxResults)] :
         f \in searchAndSort(rs, ctx0, data, query, useCache)}

\* performSearchZeroAlloc: the same with the caller's buffer
performSearchZeroAlloc(rs, ctx0, data, query, maxResults, useCache, resultBuffer) ==
    {LET z == convertToResultsZeroAlloc(f.ctx, maxResults, resultBuffer)
     IN [rs     |-> f.rs,
         ctx    |-> reset(f.ctx),
         ranked |-> rankedCandidates(f.ctx),
         rebuilt |-> f.rebuilt,
         buffer |-> z[1],
         slice  |-> z[2]] :
         f \in searchAndSort(rs, ctx0, data, query, useCache)}

\* ------------------------------------------------------------------------
\* Inputs
\* ------------------------------------------------------------------------

DocIDs == 1..NumDocs

Engines == {"e1", "e2"}

\* "ab", "abc", "   c", "c c c ab"
Texts ==
    {<<97, 98>>, <<97, 98, 99>>, <<32, 32, 32, 99>>,
     <<99, 32, 99, 32, 99, 32, 97, 98>>}

\* "", "Ab", "   ", "ab c"
Queries == {<<>>, <<65, 98>>, <<32, 32, 32>>, <<97, 98, 32, 99>>}

\* result caps a caller passes as maxResults
Caps == {0, 1, 3}

\* corpora a run starts from
InitCorpora ==
    {<<>>,
     (1 :> <<97, 98>>),
     (1 :> <<97, 98, 99>>) @@ (2 :> <<97, 98>>),
     (1 :> <<32, 32, 32, 99>>) @@ (2 :> <<99, 32, 99, 32, 99, 32, 97, 98>>),
     (1 :> <<97, 98>>) @@ (2 :> <<97, 98, 99>>) @@ (3 :> <<97, 98>>)}

\* ------------------------------------------------------------------------
\* State
\* ------------------------------------------------------------------------

VARIABLES
    data,               \* the caller's corpus map
    query,              \* the caller's query string
    cap,                \* the caller's result cap
    rs,                 \* the RuntimeSearch of each SearchEngine
    runtimeSearchPool,  \* idle RuntimeSearch objects of runtimeSearchPool
    contextPool,        \* the Context objects allocated so far
    buffer,             \* the caller's result buffer
    result,             \* the slice the last call returned
    held,               \* the slice the call before returned
    call,               \* what the last call was given and ranked
    prev,               \* what the call before was given and ranked
    calls,              \* number of calls made
    edits,              \* number of corpus edits made
    probe,              \* input and output of a function applied on its own
    mu,                 \* rs.mu of the shared engine
    goroutines          \* position and locals of each goroutine in its call

vars == <<data, query, cap, rs, runtimeSearchPool, contextPool, buffer,
          result, held, call, prev, calls, edits, probe, mu, goroutines>>

\* the results a caller reads through a slice: a slice is a view of its
\* backing array, which is an array of its own, the caller's buffer, or
\* the candidate arrays of a pooled context
View(slice) ==
    IF slice.store = "heap" THEN slice.items
    ELSE IF slice.store = "buffer" THEN SubSeq(buffer, 1, slice.len)
    ELSE IF slice.store = "ctx"
    THEN [i \in 1..slice.len |-> candidateResult(contextPool[slice.ref], i)]
    ELSE <<>>

NoCall == [op |-> "none", engine |-> "none", data |-> <<>>, query |-> <<>>,
           maxResults |-> 0, useCache |-> FALSE, ctx |-> 0, ranked |-> <<>>,
           rebuilt |-> FALSE]

NoProbe == [in |-> <<>>, out |-> <<>>, done |-> TRUE]

\* the engines, pools and caller before any call
\* the goroutines of a program that shares one engine
Goroutines == {"g1", "g2"}

\* the engine they share
SharedEngine == "e1"

\* a goroutine that is in no call
NoGoroutine ==
    [pc |-> "idle", data |-> <<>>, query |-> <<>>, ctx |-> 0, has |-> FALSE,
     c |-> NewContext, stale |-> FALSE, i |-> 0, text |-> <<>>, exists |-> FALSE,
     out |-> <<>>]

\* the zero sync.RWMutex: no reader, no writer, no writer waiting
NoLock == [readers |-> {}, writer |-> "none", waiting |-> {}]

Idle ==
    /\ rs = [e \in Engines |-> NewRuntimeSearch]
    /\ runtimeSearchPool = {}
    /\ contextPool = <<>>
    /\ result = NilSlice
    /\ held = NilSlice
    /\ call = NoCall
    /\ prev = NoCall
    /\ calls = 0
    /\ edits = 0
    /\ mu = NoLock
    /\ goroutines = [g \in Goroutines |-> NoGoroutine]

Init ==
    /\ data \in InitCorpora
    /\ query \in Queries
    /\ cap \in Caps
    /\ buffer = Zeros(Min(cap, BufLen), NoResult)
    /\ probe = NoProbe
    /\ Idle

\* bookkeeping common to the four entry points
Called(op, e, maxResults, useCache, ctx, o) ==
    /\ call' = [op |-> op, engine |-> e, data |-> data, query |-> query,
                maxResults |-> maxResults, useCache |-> useCache,
                ctx |-> ctx, ranked |-> o.ranked, rebuilt |-> o.rebuilt]
    /\ prev' = call
    /\ held' = result
    /\ calls' = calls + 1
    /\ UNCHANGED <<data, query, cap, edits, probe, mu, goroutines>>

\* the early return of the entry points
ReturnNil(op, e, maxResults) ==
    /\ result' = NilSlice
    /\ UNCHANGED <<rs, runtimeSearchPool, contextPool, buffer>>
    /\ Called(op, e, maxResults, FALSE, 0, [ranked |-> <<>>, rebuilt |-> FALSE])

\* contextPool.Get(): the number of an idle context, or of a new one
GetContext == 1..(Len(contextPool) + 1)

\* the context that Get returned under number i
gotContext(i) == IF i <= Len(contextPool) THEN contextPool[i] ELSE NewContext

\* contextPool.Put(ctx) of the context with number i
PutContext(i, ctx) ==
    contextPool' = [k \in 1..Max(i, Len(contextPool)) |->
                       IF k = i THEN ctx ELSE contextPool[k]]

\* ------------------------------------------------------------------------
\* engine.go: entry points
\* ------------------------------------------------------------------------

\* earlyReturn without the test of the cap
earlyReturnAnyCap(maxResults, d, q) ==
    Cardinality(DOMAIN d) = 0 \/ Len(q) = 0

\* the guard of the four entry points
earlyReturn(maxResults, d, q) ==
    maxResults <= 0 \/ Cardinality(DOMAIN d) = 0 \/ Len(q) = 0

\* (*SearchEngine).Search(data, query, maxResults)
Search(e) ==
    /\ calls < MaxCalls
    /\ IF earlyReturn(cap, data, query)
       THEN ReturnNil("Search", e, cap)
       ELSE LET useCache == Cardinality(DOMAIN data) > cacheThreshold
            IN \E i \in GetContext :
               \E o \in performSearchOneAlloc(rs[e], i, gotContext(i), data, query,
                                              cap, useCache) :
                  /\ rs' = [rs EXCEPT ![e] = o.rs]
                  /\ PutContext(i, o.ctx)
                  /\ result' = o.slice
                  /\ UNCHANGED <<runtimeSearchPool, buffer>>
                  /\ Called("Search", e, cap, useCache, i, o)

\* (*SearchEngine).SearchInto(data, query, resultBuffer)
SearchInto(e) ==
    /\ calls < MaxCalls
    /\ IF earlyReturn(Len(buffer), data, query)
       THEN ReturnNil("SearchInto", e, Len(buffer))
       ELSE LET useCache == Cardinality(DOMAIN data) > cacheThreshold
            IN \E i \in GetContext :
               \E o \in performSearchZeroAlloc(rs[e], gotContext(i), data, query,
                                               Len(buffer), useCache, buffer) :
                  /\ rs' = [rs EXCEPT ![e] = o.rs]
                  /\ PutContext(i, o.ctx)
                  /\ buffer' = o.buffer
                  /\ result' = o.slice
                  /\ UNCHANGED runtimeSearchPool
                  /\ Called("SearchInto", e, Len(buffer), useCache, i, o)

\* QuickSearch asking the borrowed RuntimeSearch for a cached search
QuickSearchCached ==
    /\ calls < MaxCalls
    /\ IF earlyReturn(cap, data, query)
       THEN ReturnNil("QuickSearch", "pool", cap)
       ELSE \E r \in runtimeSearchPool \cup {NewRuntimeSearch} :
            \E i \in GetContext :
            \E o \in performSearchOneAlloc(r, i, gotContext(i), data, query, cap, TRUE) :
               /\ runtimeSearchPool' = (runtimeSearchPool \ {r}) \cup {o.rs}
               /\ PutContext(i, o.ctx)
               /\ result' = o.slice
               /\ UNCHANGED <<rs, buffer>>
               /\ Called("QuickSearch", "pool", cap, FALSE, i, o)

\* QuickSearch(data, query, maxResults)
QuickSearch ==
    /\ calls < MaxCalls
    /\ IF earlyReturn(cap, data, query)
       THEN ReturnNil("QuickSearch", "pool", cap)
       ELSE \E r \in runtimeSearchPool \cup {NewRuntimeSearch} :
            \E i \in GetContext :
            \E o \in performSearchOneAlloc(r, i, gotContext(i), data, query, cap, FALSE) :
               /\ runtimeSearchPool' = (runtimeSearchPool \ {r}) \cup {o.rs}
               /\ PutContext(i, o.ctx)
               /\ result' = o.slice
               /\ UNCHANGED <<rs, buffer>>
               /\ Called("QuickSearch", "pool", cap, FALSE, i, o)

\* QuickSearchInto(data, query, resultBuffer)
QuickSearchInto ==
    /\ calls < MaxCalls
    /\ IF earlyReturn(Len(buffer), data, query)
       THEN ReturnNil("QuickSearchInto", "pool", Len(buffer))
       ELSE \E r \in runtimeSearchPool \cup {NewRuntimeSearch} :
            \E i \in GetContext :
            \E o \in performSearchZeroAlloc(r, gotContext(i), data, query,
                                            Len(buffer), FALSE, buffer) :
               /\ runtimeSearchPool' = (runtimeSearchPool \ {r}) \cup {o.rs}
               /\ PutContext(i, o.ctx)
               /\ buffer' = o.buffer
               /\ result' = o.slice
               /\ UNCHANGED rs
               /\ Called("QuickSearchInto", "pool", Len(buffer), FALSE, i, o)

\* the caller changes its corpus between two calls: data[id] = text
EditDoc(id, text) ==
    /\ calls >= 1
    /\ calls < MaxCalls
    /\ edits < MaxEdits
    /\ data' = [k \in DOMAIN data \cup {id} |-> IF k = id THEN text ELSE data[k]]
    /\ data' # data
    /\ edits' = edits + 1
    /\ UNCHANGED <<query, cap, rs, runtimeSearchPool, contextPool, buffer,
                   result, held, call, prev, calls, probe, mu, goroutines>>

\* the caller deletes a document between two calls: delete(data, id)
RemoveDoc(id) ==
    /\ calls >= 1
    /\ calls < MaxCalls
    /\ edits < MaxEdits
    /\ id \in DOMAIN data
    /\ data' = [k \in DOMAIN data \ {id} |-> data[k]]
    /\ edits' = edits + 1
    /\ UNCHANGED <<query, cap, rs, runtimeSearchPool, contextPool, buffer,
                   result, held, call, prev, calls, probe, mu, goroutines>>

\* a program that searches with one engine and with the package functions
Next ==
    \/ Search("e1")
    \/ SearchInto("e1")
    \/ QuickSearch
    \/ QuickSearchInto
    \/ \E id \in DocIDs, text \in Texts : EditDoc(id, text)
    \/ \E id \in DocIDs : RemoveDoc(id)

Spec == Init /\ [][Next]_vars

\* ------------------------------------------------------------------------
\* a program that searches large corpora with several engines and with the
\* package functions
\* ------------------------------------------------------------------------

InitEngines ==
    /\ data \in {d \in InitCorpora : Cardinality(DOMAIN d) > cacheThreshold}
    /\ query \in {q \in Queries : Len(q) > 3}
    /\ cap \in {c \in Caps : c > 1}
    /\ buffer = Zeros(Min(cap, BufLen), NoResult)
    /\ probe = NoProbe
    /\ Idle

NextEngines ==
    \/ \E e \in Engines : Search(e)
    \/ \E e \in Engines : SearchInto(e)
    \/ QuickSearch
    \/ QuickSearchInto
    \/ \E id \in DocIDs, text \in Texts : EditDoc(id, text)
    \/ \E id \in DocIDs : RemoveDoc(id)

SpecEngines == InitEngines /\ [][NextEngines]_vars

\* ------------------------------------------------------------------------
\* sortCandidates applied to candidate arrays of every size class
\* ------------------------------------------------------------------------

\* every arrangement of the ids 1..n with every score in 1..2, n up to
\* SmallSortLen
SmallSortInputs ==
    UNION {{<<ids, scores>> :
               ids \in {f \in [1..n -> 1..n] : \A i, j \in 1..n : f[i] = f[j] => i = j},
               scores \in [1..n -> 1..2]} : n \in 0..SmallSortLen}

\* the sizes around the thresholds 10 and 50 of sortCandidates
LargeSortLens == {10, 11, 12, 50, 51, 52, 61}

\* ids a*i mod 67 (distinct, 67 being prime) with scores i*i mod k
LargeSortInputs ==
    {<<[i \in 1..n |-> ((a * i) % 67) + 1], [i \in 1..n |-> ((i * i) % k) + 1]>> :
        n \in LargeSortLens, a \in {1, 2, 5, 30, 66}, k \in 1..3}

\* a context whose candidate arrays hold the records <<scores[i], ids[i]>>,
\* the text of a record being its id, followed by two records that an
\* earlier search left beyond candidateCount
sortInput(ids, scores) ==
    [NewContext EXCEPT !.candidateIDs    = ids \o <<98, 99>>,
                       !.candidateScores = scores \o <<3, 4>>,
                       !.candidateTexts  = [i \in 1..Len(ids) |-> <<ids[i]>>]
                                               \o <<<<98>>, <<99>>>>,
                       !.candidateCount  = Len(ids)]

InitSort ==
    /\ data = <<>>
    /\ query = <<>>
    /\ cap = 0
    /\ buffer = <<>>
    /\ Idle
    /\ probe \in {[in |-> sortInput(x[1], x[2]), out |-> <<>>, done |-> FALSE] :
                     x \in SmallSortInputs \cup LargeSortInputs}

\* rs.sortCandidates(ctx)
SortCandidates ==
    /\ ~probe.done
    /\ probe' = [probe EXCEPT !.out = sortCandidates(probe.in), !.done = TRUE]
    /\ UNCHANGED <<data, query, cap, rs, runtimeSearchPool, contextPool, buffer,
                   result, held, call, prev, calls, edits, mu, goroutines>>

NextSort == SortCandidates

SpecSort == InitSort /\ [][NextSort]_vars

\* ------------------------------------------------------------------------
\* the staleness check of searchWithCache applied to an index built from a
\* corpus and a second corpus of the same size
\* ------------------------------------------------------------------------

\* corpus sizes on both sides of every value of min(size/10, 5)
StaleSizes == {2, 9, 10, 20, 30, 50, 60}

\* the identifiers at which the second corpus differs from the first
StaleChanges == {D \in SUBSET (1..7) : Cardinality(D) <= 2}

\* the corpus 1..n, every text "ab"
staleCached(n) == [i \in 1..n |-> <<97, 98>>]

\* the same corpus with the text of the documents in D changed to "c"
staleEdited(n, D) == [i \in 1..n |-> IF i \in D THEN <<99>> ELSE <<97, 98>>]

\* the same corpus with the documents in D deleted and as many new ones added
staleReplaced(n, D) ==
    [i \in ((1..n) \ D) \cup {n + j : j \in 1..Cardinality(D \cap (1..n))} |-> <<97, 98>>]

\* an enumeration of a corpus: its identifiers in ascending order, rotated to
\* start at the s-th
staleOrder(d, s) ==
    LET ids == DOMAIN d
        n   == Cardinality(ids)
        Has(i) == i \in ids
        asc == SelectSeq([i \in 1..(n + 7) |-> i], Has)
    IN [i \in 1..n |-> asc[((i + s - 2) % n) + 1]]

StaleInputs ==
    {[rs |-> buildIndex(NewRuntimeSearch, staleCached(n), [i \in 1..n |-> i]),
      data |-> d, order |-> staleOrder(d, s)] :
        <<n, d, s>> \in
            UNION {{<<m, c, t>> : c \in {staleEdited(m, D) : D \in StaleChanges} \cup
                                       {staleReplaced(m, D) : D \in StaleChanges},
                                 t \in 1..Min(m, 3)} : m \in StaleSizes}}

InitStale ==
    /\ data = <<>>
    /\ query = <<>>
    /\ cap = 0
    /\ buffer = <<>>
    /\ Idle
    /\ probe \in {[in |-> x, out |-> <<>>, done |-> FALSE] : x \in StaleInputs}

\* lines 159-176 of searchWithCache
CheckStale ==
    /\ ~probe.done
    /\ probe' = [probe EXCEPT
                    !.out = [stale   |-> needsRebuild(probe.in.rs, probe.in.data,
                                                      probe.in.order),
                             checked |-> sampleChecked(probe.in.rs, probe.in.data,
                                                       probe.in.order)],
                    !.done = TRUE]
    /\ UNCHANGED <<data, query, cap, rs, runtimeSearchPool, contextPool, buffer,
                   result, held, call, prev, calls, edits, mu, goroutines>>

NextStale == CheckStale

SpecStale == InitStale /\ [][NextStale]_vars

\* ------------------------------------------------------------------------
\* decodeRune applied to byte strings of up to four bytes
\* ------------------------------------------------------------------------

\* an ASCII byte, continuation bytes, lead bytes of two, three and four byte
\* sequences, and bytes that lead no sequence
RuneBytes == {65, 128, 177, 191, 195, 230, 240, 248, 255}

RuneInputs == UNION {[1..n -> RuneBytes] : n \in 0..4}

InitRune ==
    /\ data = <<>>
    /\ query = <<>>
    /\ cap = 0
    /\ buffer = <<>>
    /\ Idle
    /\ probe \in {[in |-> x, out |-> <<>>, done |-> FALSE] : x \in RuneInputs}

\* decodeRune(s)
DecodeRune ==
    /\ ~probe.done
    /\ probe' = [probe EXCEPT !.out = decodeRune(probe.in), !.done = TRUE]
    /\ UNCHANGED <<data, query, cap, rs, runtimeSearchPool, contextPool, buffer,
                   result, held, call, prev, calls, edits, mu, goroutines>>

NextRune == DecodeRune

SpecRune == InitRune /\ [][NextRune]_vars

\* ------------------------------------------------------------------------
\* normalizeText and splitWords applied to byte strings and buffers of
\* several lengths
\* ------------------------------------------------------------------------

\* longest text given to normalizeText
MaxTextLen == 5

\* 'A', 'b', space, '-', and the two bytes of U+00E9
TextBytes == {65, 98, 32, 45, 195, 169}

\* len(buffer) of normalizeText
TextBufLens == {6, 9}

\* len(starts) and len(ends) of splitWords
TextWordCaps == {1, 3}

TextInputs ==
    {[text |-> t, bufLen |-> n, maxWords |-> m] :
        t \in UNION {[1..k -> TextBytes] : k \in 0..MaxTextLen},
        n \in TextBufLens, m \in TextWordCaps}

InitText ==
    /\ data = <<>>
    /\ query = <<>>
    /\ cap = 0
    /\ buffer = <<>>
    /\ Idle
    /\ probe \in {[in |-> x, out |-> [step |-> 0], done |-> FALSE] : x \in TextInputs}

\* rs.normalizeText(text, buffer, &length)
NormalizeText ==
    /\ ~probe.done
    /\ probe.out.step = 0
    /\ probe' = [probe EXCEPT
                   !.out = [step |-> 1,
                            norm |-> normalizeText(probe.in.text, probe.in.bufLen)]]
    /\ UNCHANGED <<data, query, cap, rs, runtimeSearchPool, contextPool, buffer,
                   result, held, call, prev, calls, edits, mu, goroutines>>

\* rs.normalizeText(string(buffer[:length]), buffer2, &length2)
NormalizeAgain ==
    /\ ~probe.done
    /\ probe.out.step = 1
    /\ probe' = [probe EXCEPT
                   !.out = [step |-> 2, norm |-> probe.out.norm,
                            again |-> normalizeText(probe.out.norm, probe.in.bufLen)]]
    /\ UNCHANGED <<data, query, cap, rs, runtimeSearchPool, contextPool, buffer,
                   result, held, call, prev, calls, edits, mu, goroutines>>

\* rs.splitWords(buffer[:length], starts, ends, &count)
SplitWords ==
    /\ ~probe.done
    /\ probe.out.step = 2
    /\ probe' = [probe EXCEPT
                   !.out = [step |-> 3, norm |-> probe.out.norm,
                            again |-> probe.out.again,
                            spans |-> splitWords(probe.out.norm, probe.in.maxWords)],
                   !.done = TRUE]
    /\ UNCHANGED <<data, query, cap, rs, runtimeSearchPool, contextPool, buffer,
                   result, held, call, prev, calls, edits, mu, goroutines>>

NextText == NormalizeText \/ NormalizeAgain \/ SplitWords

SpecText == InitText /\ [][NextText]_vars

\* ------------------------------------------------------------------------
\* addToCandidateSet called with one posting list after another
\* ------------------------------------------------------------------------

\* len(ctx.candidateSet) of the context the posting lists are added to
SetCap == 3

\* number of posting lists added to one candidate set
MaxLists == 4

\* document identifiers of the posting lists
SetIDs == 1..4

\* posting lists: any identifiers in any order, repeated or not
PostingLists == UNION {[1..n -> SetIDs] : n \in 0..2}

InitSet ==
    /\ data = <<>>
    /\ query = <<>>
    /\ cap = 0
    /\ buffer = <<>>
    /\ Idle
    /\ probe = [in |-> [docIDs |-> <<>>, lists |-> 0],
                out |-> [NewContext EXCEPT !.candidateSet = Zeros(SetCap, 0)],
                done |-> FALSE]

\* rs.addToCandidateSet(docIDs, ctx)
AddToCandidateSet(docIDs) ==
    /\ ~probe.done
    /\ probe.in.lists < MaxLists
    /\ probe' = [probe EXCEPT !.in = [docIDs |-> docIDs, lists |-> @.lists + 1],
                              !.out = addToCandidateSet(docIDs, 1, @)]
    /\ UNCHANGED <<data, query, cap, rs, runtimeSearchPool, contextPool, buffer,
                   result, held, call, prev, calls, edits, mu, goroutines>>

NextSet == \E docIDs \in PostingLists : AddToCandidateSet(docIDs)

SpecSet == InitSet /\ [][NextSet]_vars

\* ------------------------------------------------------------------------
\* findCandidates applied to the index of a corpus and a prepared query,
\* with buffers long enough for words that differ by more than 10 bytes,
\* queries of more than 100 bytes and sets of more than 100 candidates
\* ------------------------------------------------------------------------

\* n copies of byte b
Rep(n, b) == [i \in 1..n |-> b]

\* documents: "a ab", "ab", "abc abc", "b", "ab" followed by ten and by
\* eleven "z", "wxyz", "wxy", "www"
FindTexts ==
    (1 :> <<97, 32, 97, 98>>) @@ (2 :> <<97, 98>>) @@
    (3 :> <<97, 98, 99, 32, 97, 98, 99>>) @@ (4 :> <<98>>) @@
    (5 :> <<97, 98>> \o Rep(10, 122)) @@ (6 :> <<97, 98>> \o Rep(11, 122)) @@
    (7 :> <<119, 120, 121, 122>>) @@ (8 :> <<119, 120, 121>>) @@
    (9 :> <<119, 119, 119>>)

\* corpora of one or two of these documents
FindCorpora ==
    {[id \in S |-> FindTexts[id]] :
        S \in {T \in SUBSET DOMAIN FindTexts : Cardinality(T) \in 1..2}}

\* "ab", "a b", "b abc", "ab a", "Ab  q", "vwxyz", "ab" followed by "zz"
FindQueries ==
    {<<97, 98>>, <<97, 32, 98>>, <<98, 32, 97, 98, 99>>, <<97, 98, 32, 97>>,
     <<65, 98, 32, 32, 113>>, <<118, 119, 120, 121, 122>>, <<97, 98, 122, 122>>}

\* the contexts of the queries of 100 and of 101 times "w": normalizeText
\* copies the bytes and splitWords finds the one word they make
FindLongContexts ==
    {findContextOf(Rep(n, 119), <<<<0, n>>>>, 8) : n \in {100, 101}}

\* corpora of the document "wxy" and n documents "xbig", n = 100 and 101
FindLargeCorpora ==
    {[id \in {8} \cup 10..(9 + n) |->
         IF id = 8 THEN FindTexts[8] ELSE <<120, 98, 105, 103>>] : n \in {100, 101}}

\* the corpus enumerated by ascending identifier
ascending(d) ==
    LET Has(i) == i \in DOMAIN d
    IN SelectSeq([i \in 1..120 |-> i], Has)

\* "bigqwxy": the trigrams "big", "gqw" and "wxy" at offsets 0, 2 and 4
FindLargeQuery == <<98, 105, 103, 113, 119, 120, 121>>

\* every small corpus in every enumeration order with every query and a
\* candidate set of 1 or 8 entries, and with the long queries; the large
\* corpora with the large query
FindInputs ==
    UNION {{[rs |-> findIndex(d, o), ctx |-> x] :
               o \in Orders(DOMAIN d),
               x \in {findContext(q, c) : q \in FindQueries, c \in {1, 8}}
                        \cup FindLongContexts} :
           d \in FindCorpora}
    \cup {[rs |-> findIndex(d, ascending(d)), ctx |-> findContext(FindLargeQuery, 110)] :
             d \in FindLargeCorpora}

InitFind ==
    /\ data = <<>>
    /\ query = <<>>
    /\ cap = 0
    /\ buffer = <<>>
    /\ Idle
    /\ probe \in {[in |-> x, out |-> <<>>, done |-> FALSE] : x \in FindInputs}

\* rs.findCandidates(ctx)
FindCandidates ==
    /\ ~probe.done
    /\ \E c \in findCandidates(probe.in.ctx, probe.in.rs) :
          probe' = [probe EXCEPT !.out = c, !.done = TRUE]
    /\ UNCHANGED <<data, query, cap, rs, runtimeSearchPool, contextPool, buffer,
                   result, held, call, prev, calls, edits, mu, goroutines>>

NextFind == FindCandidates

SpecFind == InitFind /\ [][NextFind]_vars

\* ------------------------------------------------------------------------
\* scoreDocument applied to a document and a prepared query
\* ------------------------------------------------------------------------

\* longest query and document of the exhaustive part
MaxScoreLen == 4

\* 'a', 'b', '-'
ScoreQueryBytes == {97, 98, 45}

\* 'a', 'b', 'c', space
ScoreDocBytes == {97, 98, 99, 32}

\* "abcabc..." of 20 and of 21 bytes, "a-b-a", "a-b-a-b", "aab-abb"
ScoreLongQueries ==
    {[i \in 1..n |-> 97 + ((i - 1) % 3)] : n \in {20, 21}}
    \cup {<<97, 45, 98, 45, 97>>, <<97, 45, 98, 45, 97, 45, 98>>,
          <<97, 97, 98, 45, 97, 98, 98>>}

\* "zabcabc", "zabc", "c c c a", "ccccccc a"
ScoreLongTexts ==
    {<<122, 97, 98, 99, 97, 98, 99>>, <<122, 97, 98, 99>>,
     <<99, 32, 99, 32, 99, 32, 97>>, <<99, 99, 99, 99, 99, 99, 99, 32, 97>>}

ScoreInputs ==
    {[text |-> t, ctx |-> c] :
        t \in UNION {[1..n -> ScoreDocBytes] : n \in 1..MaxScoreLen} \cup ScoreLongTexts,
        c \in {findContext(q, CandidateCap) :
                  q \in UNION {[1..n -> ScoreQueryBytes] : n \in 1..MaxScoreLen}
                        \cup ScoreLongQueries}}

InitScore ==
    /\ data = <<>>
    /\ query = <<>>
    /\ cap = 0
    /\ buffer = <<>>
    /\ Idle
    /\ probe \in {[in |-> x, out |-> [step |-> 0], done |-> FALSE] : x \in ScoreInputs}

\* rs.scoreDocument(text, ctx)
ScoreDocument ==
    /\ ~probe.done
    /\ probe.out.step = 0
    /\ probe' = [probe EXCEPT
                   !.out = [step |-> 1,
                            score |-> scoreDocument(probe.in.text, probe.in.ctx).score]]
    /\ UNCHANGED <<data, query, cap, rs, runtimeSearchPool, contextPool, buffer,
                   result, held, call, prev, calls, edits, mu, goroutines>>

\* the same call with the byte-presence exit left out
ScoreAllSteps ==
    /\ ~probe.done
    /\ probe.out.step = 1
    /\ probe' = [probe EXCEPT
                   !.out = [step |-> 2, score |-> probe.out.score,
                            full |-> scoreDocumentAllSteps(probe.in.text,
                                                           probe.in.ctx).score],
                   !.done = TRUE]
    /\ UNCHANGED <<data, query, cap, rs, runtimeSearchPool, contextPool, buffer,
                   result, held, call, prev, calls, edits, mu, goroutines>>

NextScore == ScoreDocument \/ ScoreAllSteps

SpecScore == InitScore /\ [][NextScore]_vars

\* ------------------------------------------------------------------------
\* goroutines calling Search on one shared engine
\* ------------------------------------------------------------------------

\* the corpora and queries the goroutines pass: "ab" alone is searched
\* directly, the two larger corpora, which differ in one document, through
\* the index
SharedCorpora ==
    {(1 :> <<97, 98>>),
     (1 :> <<97, 98, 99>>) @@ (2 :> <<97, 98>>),
     (1 :> <<97, 98, 99>>) @@ (3 :> <<97, 98>>)}

SharedQueries == {<<65, 98>>}

\* the contexts some call holds
HeldContexts(gs) == {gs[g].ctx : g \in {h \in Goroutines : gs[h].has}}

\* contextPool.Get(): the numbers of the contexts in the pool, or of a new
\* one; a context a call holds is not in the pool
GetIdleContext == GetContext \ HeldContexts(goroutines)

\* the goroutine's next statement uses its context: the contexts the
\* statement can leave, given the index r
contextStep(rec, c, r) ==
    CASE rec.pc = "direct" ->
             {searchDirect(rec.data, o, c) : o \in Orders(DOMAIN rec.data)}
      [] rec.pc = "finding" -> findCandidates(c, r)
      [] rec.pc = "found" -> {[c EXCEPT !.candidateCount = 0]}
      [] rec.pc = "read" ->
             IF rec.exists
             THEN {keepCandidate(scored, At(c.candidateSet, rec.i), rec.text) :
                      scored \in {scoreDocument(rec.text, c)}}
             ELSE {c}
      [] rec.pc = "finish" -> {sortCandidates(c)}
      [] OTHER -> {c}

\* rs.mu.RLock() returns: no writer holds the lock and none waits for it
canRLock == mu.writer = "none" /\ mu.waiting = {}

\* rs.mu.Lock() returns: no reader and no writer holds the lock
canLock == mu.writer = "none" /\ mu.readers = {}

RLock(g) ==
    /\ canRLock
    /\ mu' = [mu EXCEPT !.readers = @ \cup {g}]

RUnlock(g) == mu' = [mu EXCEPT !.readers = @ \ {g}]

\* the goroutine moves to pc with the given locals changed
Goto(g, rec) ==
    /\ goroutines' = [goroutines EXCEPT ![g] = rec]
    /\ UNCHANGED <<data, query, buffer, runtimeSearchPool, result, held, call, prev,
                   edits, probe, cap>>

\* Search(data, query, maxResults) up to the branch on useCache:
\* contextPool.Get(), normalizeText and splitWords of the query
Begin(g) ==
    /\ goroutines[g].pc = "idle"
    /\ calls < MaxCalls
    /\ \E d \in SharedCorpora, q \in SharedQueries, i \in GetIdleContext :
          /\ Goto(g, [NoGoroutine EXCEPT
                         !.pc    = IF Cardinality(DOMAIN d) > cacheThreshold
                                   THEN "check" ELSE "direct",
                         !.data  = d,
                         !.query = q,
                         !.ctx   = i,
                         !.has   = TRUE,
                         !.c     = prepareQuery(gotContext(i), q)])
          /\ contextPool' = IF i > Len(contextPool)
                            THEN Append(contextPool, NewContext) ELSE contextPool
    /\ calls' = calls + 1
    /\ UNCHANGED <<rs, mu>>

\* rs.searchDirect(data, ctx)
Direct(g) ==
    /\ goroutines[g].pc = "direct"
    /\ \E c \in contextStep(goroutines[g], goroutines[g].c, rs[SharedEngine]) :
          Goto(g, [goroutines[g] EXCEPT !.pc = "finish", !.c = c])
    /\ UNCHANGED <<rs, contextPool, mu, calls>>

\* searchWithCache line 159: rs.mu.RLock()
CheckRLock(g) ==
    /\ goroutines[g].pc = "check"
    /\ RLock(g)
    /\ Goto(g, [goroutines[g] EXCEPT !.pc = "checking"])
    /\ UNCHANGED <<rs, contextPool, calls>>

\* searchWithCache lines 160-175: the staleness check
Check(g) ==
    /\ goroutines[g].pc = "checking"
    /\ \E o \in Orders(DOMAIN goroutines[g].data) :
          Goto(g, [goroutines[g] EXCEPT
                      !.pc    = "checked",
                      !.stale = needsRebuild(rs[SharedEngine], goroutines[g].data, o)])
    /\ UNCHANGED <<rs, contextPool, mu, calls>>

\* searchWithCache with the read lock kept after the staleness check
CheckKeepRLock(g) ==
    /\ goroutines[g].pc = "checked"
    /\ Goto(g, [goroutines[g] EXCEPT
                   !.pc = IF goroutines[g].stale THEN "build" ELSE "find"])
    /\ UNCHANGED <<rs, contextPool, mu, calls>>

\* searchWithCache lines 176-178: rs.mu.RUnlock(), if needsRebuild
CheckRUnlock(g) ==
    /\ goroutines[g].pc = "checked"
    /\ RUnlock(g)
    /\ Goto(g, [goroutines[g] EXCEPT
                   !.pc = IF goroutines[g].stale THEN "build" ELSE "find"])
    /\ UNCHANGED <<rs, contextPool, calls>>

\* buildIndex line 714: rs.mu.Lock() is called and keeps new readers out
BuildLock(g) ==
    /\ goroutines[g].pc = "build"
    /\ mu' = [mu EXCEPT !.waiting = @ \cup {g}]
    /\ Goto(g, [goroutines[g] EXCEPT !.pc = "locking"])
    /\ UNCHANGED <<rs, contextPool, calls>>

\* buildIndex line 714: rs.mu.Lock() returns
BuildLocked(g) ==
    /\ goroutines[g].pc = "locking"
    /\ canLock
    /\ mu' = [mu EXCEPT !.writer = g, !.waiting = @ \ {g}]
    /\ Goto(g, [goroutines[g] EXCEPT !.pc = "clearing"])
    /\ UNCHANGED <<rs, contextPool, calls>>

\* buildIndex lines 717-740: the three maps made or emptied
Clear(g) ==
    /\ goroutines[g].pc = "clearing"
    /\ rs' = [rs EXCEPT ![SharedEngine] =
                  [@ EXCEPT !.cachedDataNil = FALSE, !.cachedData = <<>>,
                            !.cachedWordMap = <<>>, !.cachedTrigrams = <<>>]]
    /\ Goto(g, [goroutines[g] EXCEPT !.pc = "filling"])
    /\ UNCHANGED <<contextPool, mu, calls>>

\* buildIndex lines 743-782: the maps filled from data
Fill(g) ==
    /\ goroutines[g].pc = "filling"
    /\ \E o \in Orders(DOMAIN goroutines[g].data) :
          rs' = [rs EXCEPT ![SharedEngine] = buildIndexLoop(@, goroutines[g].data, o, 1)]
    /\ Goto(g, [goroutines[g] EXCEPT !.pc = "built"])
    /\ UNCHANGED <<contextPool, mu, calls>>

\* buildIndex line 715: the deferred rs.mu.Unlock()
BuildUnlock(g) ==
    /\ goroutines[g].pc = "built"
    /\ mu' = [mu EXCEPT !.writer = "none"]
    /\ Goto(g, [goroutines[g] EXCEPT !.pc = "find"])
    /\ UNCHANGED <<rs, contextPool, calls>>

\* findCandidates line 191: rs.mu.RLock()
FindRLock(g) ==
    /\ goroutines[g].pc = "find"
    /\ RLock(g)
    /\ Goto(g, [goroutines[g] EXCEPT !.pc = "finding"])
    /\ UNCHANGED <<rs, contextPool, calls>>

\* findCandidates lines 194-261: the lookups in the word and trigram maps
Find(g) ==
    /\ goroutines[g].pc = "finding"
    /\ \E c \in contextStep(goroutines[g], goroutines[g].c, rs[SharedEngine]) :
          Goto(g, [goroutines[g] EXCEPT !.pc = "found", !.c = c])
    /\ UNCHANGED <<rs, contextPool, mu, calls>>

\* findCandidates line 192: the deferred rs.mu.RUnlock(); scoreCandidates
\* line 483
FindRUnlock(g) ==
    /\ goroutines[g].pc = "found"
    /\ RUnlock(g)
    /\ \E c \in contextStep(goroutines[g], goroutines[g].c, rs[SharedEngine]) :
          Goto(g, [goroutines[g] EXCEPT !.pc = "score", !.c = c, !.i = 0])
    /\ UNCHANGED <<rs, contextPool, calls>>

\* the loop of scoreCandidates goes on
moreCandidates(rec) ==
    /\ rec.i < rec.c.candidateSetLen
    /\ rec.c.candidateCount < Len(rec.c.candidateIDs)

\* scoreCandidates reading cachedData without the read lock
ScoreNoRLock(g) ==
    /\ goroutines[g].pc = "score"
    /\ moreCandidates(goroutines[g])
    /\ Goto(g, [goroutines[g] EXCEPT !.pc = "reading"])
    /\ UNCHANGED <<rs, contextPool, mu, calls>>

\* scoreCandidates lines 485-488: the loop test, rs.mu.RLock()
ScoreRLock(g) ==
    /\ goroutines[g].pc = "score"
    /\ moreCandidates(goroutines[g])
    /\ RLock(g)
    /\ Goto(g, [goroutines[g] EXCEPT !.pc = "reading"])
    /\ UNCHANGED <<rs, contextPool, calls>>

\* scoreCandidates line 489: text, exists := rs.cachedData[docID]
ScoreRead(g) ==
    /\ goroutines[g].pc = "reading"
    /\ LET docID == At(goroutines[g].c.candidateSet, goroutines[g].i)
           found == docID \in DOMAIN rs[SharedEngine].cachedData
       IN Goto(g, [goroutines[g] EXCEPT
                      !.pc     = "read",
                      !.exists = found,
                      !.text   = IF found THEN rs[SharedEngine].cachedData[docID]
                                 ELSE <<>>])
    /\ UNCHANGED <<rs, contextPool, mu, calls>>

\* scoreCandidates lines 490-500: rs.mu.RUnlock(), the candidate scored and
\* kept
ScoreRUnlock(g) ==
    /\ goroutines[g].pc = "read"
    /\ RUnlock(g)
    /\ \E c \in contextStep(goroutines[g], goroutines[g].c, rs[SharedEngine]) :
          Goto(g, [goroutines[g] EXCEPT !.pc = "score", !.c = c, !.i = @ + 1,
                                        !.text = <<>>, !.exists = FALSE])
    /\ UNCHANGED <<rs, contextPool, calls>>

\* scoreCandidates line 485: the loop ends
ScoreDone(g) ==
    /\ goroutines[g].pc = "score"
    /\ ~moreCandidates(goroutines[g])
    /\ Goto(g, [goroutines[g] EXCEPT !.pc = "finish", !.i = 0])
    /\ UNCHANGED <<rs, contextPool, mu, calls>>

\* the results a finished call returns from the context c
finished(rec, c) ==
    {View(convertToResultsOneAlloc(rec.ctx, s, cap)) : s \in contextStep(rec, c, <<>>)}

\* performSearchOneAlloc lines 28-31 and the deferred function: sort,
\* convert, ctx.reset(), contextPool.Put(ctx)
Finish(g) ==
    /\ goroutines[g].pc = "finish"
    /\ \E s \in contextStep(goroutines[g], goroutines[g].c, rs[SharedEngine]) :
          /\ Goto(g, [goroutines[g] EXCEPT
                         !.pc  = "idle",
                         !.has = FALSE,
                         !.c   = NewContext,
                         !.out = View(convertToResultsOneAlloc(goroutines[g].ctx, s, cap))])
          /\ PutContext(goroutines[g].ctx, reset(s))
    /\ UNCHANGED <<rs, mu, calls>>

\* one statement of goroutine g
Step(g) ==
    \/ Begin(g)
    \/ Direct(g)
    \/ CheckRLock(g)
    \/ Check(g)
    \/ CheckRUnlock(g)
    \/ BuildLock(g)
    \/ BuildLocked(g)
    \/ Clear(g)
    \/ Fill(g)
    \/ BuildUnlock(g)
    \/ FindRLock(g)
    \/ Find(g)
    \/ FindRUnlock(g)
    \/ ScoreRLock(g)
    \/ ScoreRead(g)
    \/ ScoreRUnlock(g)
    \/ ScoreDone(g)
    \/ Finish(g)

InitShared ==
    /\ data = <<>>
    /\ query = <<>>
    /\ cap \in {c \in Caps : c > 1}
    /\ buffer = <<>>
    /\ probe = NoProbe
    /\ Idle

NextShared == \E g \in Goroutines : Step(g)

SpecShared == InitShared /\ [][NextShared]_vars

\* the Go scheduler runs every goroutine that can take a step
SpecSharedFair == SpecShared /\ \A g \in Goroutines : WF_vars(Step(g))

\* ------------------------------------------------------------------------
\* Properties
\* ------------------------------------------------------------------------

AllocOps == {"Search", "QuickSearch"}

IntoOps == {"SearchInto", "QuickSearchInto"}

\* the <<ID, Score>> pairs of a sequence of results, in order and as a set
IdScores(v) == [i \in DOMAIN v |-> <<v[i].ID, v[i].Score>>]

IdScoreSet(v) == {<<v[i].ID, v[i].Score>> : i \in DOMAIN v}

\* the last two calls were given the same corpus, query and cap
SameArguments ==
    /\ call.data = prev.data
    /\ call.query = prev.query
    /\ call.maxResults = prev.maxResults

\* C1: given the same corpus, query and cap, the cached search of an engine
\* whose index was built from that corpus and the uncached search return
\* the same set of document ids with the same scores.
CachedEqualsUncached ==
    (/\ call.op \in AllocOps
     /\ prev.op \in AllocOps
     /\ call.useCache # prev.useCache
     /\ SameArguments
     /\ rs[IF call.useCache THEN call.engine ELSE prev.engine].cachedData = call.data)
    => IdScoreSet(View(result)) = IdScoreSet(View(held))

\* the candidate records of ctx are in rank order: score descending, ties
\* by id ascending
RankOrdered(ctx) ==
    \A i \in 1..(ctx.candidateCount - 1) :
        \/ ctx.candidateScores[i] > ctx.candidateScores[i + 1]
        \/ /\ ctx.candidateScores[i] = ctx.candidateScores[i + 1]
           /\ ctx.candidateIDs[i] < ctx.candidateIDs[i + 1]

\* C2: after sortCandidates the candidates are ordered by score descending,
\* ties by id ascending, for every candidate count (insertion sort up to 10,
\* shell sort up to 50, quicksort above), and each of the three algorithms
\* yields that same order for the same candidates.
SortRanksCandidates ==
    probe.done =>
        /\ RankOrdered(probe.out)
        /\ probe.out = insertionSort(probe.in, 0, probe.in.candidateCount - 1)
        /\ probe.out = shellSort(probe.in)
        /\ probe.out = quickSort(probe.in, 0, probe.in.candidateCount - 1)

\* a quicksort of more than 50 candidates that were not in rank order
SortedLargeArray ==
    /\ probe.done
    /\ probe.in.candidateCount > 50
    /\ ~RankOrdered(probe.in)
    /\ RankOrdered(probe.out)

\* every result read through the returned slice has a positive score and
\* the id and text of a document of the corpus src
ResultsFrom(src) ==
    \A i \in DOMAIN View(result) :
        /\ View(result)[i].Score > 0
        /\ View(result)[i].ID \in DOMAIN src
        /\ View(result)[i].Text = src[View(result)[i].ID]

DegenerateCallsDoNothing ==
    [][(/\ calls' = calls + 1
        /\ \/ DOMAIN data = {}
           \/ query = <<>>
           \/ (IF call'.op \in IntoOps THEN Len(buffer) ELSE cap) <= 0)
       => /\ result' = NilSlice
          /\ UNCHANGED <<rs, runtimeSearchPool, contextPool, buffer>>]_vars

\* a call on an emptied corpus after a call that left a context in the pool
DegenerateAfterSearch ==
    /\ call.op \in AllocOps \cup IntoOps
    /\ DOMAIN call.data = {}
    /\ call.query # <<>>
    /\ call.maxResults > 0
    /\ Len(contextPool) >= 1
    /\ result = NilSlice

\* C5: a non-empty query made only of word-boundary bytes yields an empty
\* result in both modes.
BoundaryQueryFindsNothing ==
    (/\ call.op # "none"
     /\ call.query # <<>>
     /\ \A i \in DOMAIN call.query : call.query[i] \in wordBoundaryLUT)
    => View(result) = <<>> /\ call.ranked = <<>>

\* a cached search for three spaces whose trigram is indexed and whose
\* trigram fallback put a document into the candidate set
SpacesTrigramCandidates ==
    /\ call.useCache
    /\ call.query = <<32, 32, 32>>
    /\ call.maxResults > 0
    /\ <<32, 32, 32>> \in DOMAIN rs[call.engine].cachedTrigrams
    /\ contextPool[call.ctx].candidateSet[1] # 0
    /\ result = NilSlice

\* C6: the buffer variant returns a view of exactly min(candidateCount,
\* maxResults, K) entries of the caller's buffer of length K, writes the
\* ranked candidates to the indices below that limit and leaves the
\* entries at and above it unchanged.
IntoWritesOnlyPrefix ==
    [][(calls' = calls + 1 /\ call'.op \in IntoOps)
       => /\ result'.len =
                Min(Len(call'.ranked), Min(call'.maxResults, Len(buffer)))
          /\ result'.store = IF result'.len = 0 THEN "nil" ELSE "buffer"
          /\ Len(buffer') = Len(buffer)
          /\ \A i \in 1..Len(buffer) :
                buffer'[i] = IF i <= result'.len THEN call'.ranked[i] ELSE buffer[i]]_vars

\* a buffer call returned one entry of a buffer of two whose second entry
\* still holds a result of the call before
IntoKeptTail ==
    /\ call.op \in IntoOps
    /\ prev.op \in IntoOps
    /\ result.len = 1
    /\ Len(buffer) = 2
    /\ buffer[2].ID # 0

\* the allocating entry points return the first min(candidateCount,
\* maxResults) ranked candidates, in rank order, in an array of their own
AllocReturnsTop ==
    call.op \in AllocOps =>
        /\ result.store = IF result.len = 0 THEN "nil" ELSE "heap"
        /\ View(result) =
              SubSeq(call.ranked, 1, Min(Len(call.ranked), Max(call.maxResults, 0)))

\* the score scoreDocument gives a document for a query
ScoreOf(text, q) == scoreDocument(text, prepareQuery(NewContext, q)).score

\* C7 as amended: the allocating variant returns exactly min(candidateCount,
\* maxResults) entries, the first entries of the ranked candidate list in
\* rank order; so exactly maxResults when at least maxResults candidates
\* were kept.
AllocReturnsRankedPrefix ==
    /\ AllocReturnsTop
    /\ (call.op \in AllocOps /\ call.maxResults > 0
        /\ Len(call.ranked) >= call.maxResults)
       => result.len = call.maxResults

\* an allocating call that cut two ranked candidates down to one
AllocCutToCap ==
    /\ call.op \in AllocOps
    /\ Len(call.ranked) = 2
    /\ call.maxResults = 1
    /\ result.len = 1

\* C7: the allocating variant returns exactly min(candidateCount,
\* maxResults) entries, the first entries of the ranked list in rank order;
\* when at least maxResults documents score positively, exactly maxResults
\* results are returned.
AllocReturnsCapWhenEnoughScore ==
    /\ AllocReturnsTop
    /\ (call.op \in AllocOps /\ call.maxResults > 0
        /\ Cardinality({id \in DOMAIN call.data :
                           ScoreOf(call.data[id], call.query) > 0}) >= call.maxResults)
       => result.len = call.maxResults

\* C8: what a caller reads through a slice returned by Search or
\* QuickSearch is not changed by a later search, although that search
\* resets and reuses a pooled context.
ReturnedResultsStay ==
    [][(calls' = calls + 1 /\ call.op \in AllocOps)
       => View(held)' = View(result)]_vars

\* a second search reused the context of the first and ranked other
\* candidates, the results of the first being held
ContextReusedAfterReturn ==
    /\ calls = 2
    /\ prev.op \in AllocOps
    /\ held.len >= 1
    /\ call.ctx = prev.ctx
    /\ call.ranked # prev.ranked
    /\ call.ranked # <<>>

\* ASCII case folding, the words of a folded text and the prefix relation,
\* stated on their own
Folded(t) == [i \in 1..Len(t) |-> IF t[i] \in 65..90 THEN t[i] + 32 ELSE t[i]]

WordSpans(t) ==
    {x \in (1..Len(t)) \X (1..Len(t)) :
        /\ x[1] <= x[2]
        /\ \A k \in x[1]..x[2] : t[k] \notin wordBoundaryLUT
        /\ x[1] = 1 \/ t[x[1] - 1] \in wordBoundaryLUT
        /\ x[2] = Len(t) \/ t[x[2] + 1] \in wordBoundaryLUT}

WordsOf(t) == {SubSeq(t, x[1], x[2]) : x \in WordSpans(t)}

IsProperPrefix(a, b) == Len(a) < Len(b) /\ SubSeq(b, 1, Len(a)) = a

HasExactWord(text, q) == WordsOf(Folded(q)) \subseteq WordsOf(Folded(text))

HasPrefixWord(text, q) ==
    \E w \in WordsOf(Folded(text)), v \in WordsOf(Folded(q)) :
        IsProperPrefix(w, v) \/ IsProperPrefix(v, w)

\* the normalized text fits docNormalized and its words fit the word arrays
FitsScratch(text) ==
    /\ Len(text) <= DocBufCap - 4
    /\ Cardinality(WordSpans(Folded(text))) <= DocWordCap

\* an uncached search for a single word
SingleWordUncached ==
    /\ call.op # "none"
    /\ ~call.useCache
    /\ call.maxResults > 0
    /\ Cardinality(WordSpans(Folded(call.query))) = 1

\* the documents in Docs of the searched corpus score 2.0 with a word equal
\* to the query word and 1.0 with none but a word in prefix relation; the
\* ranked candidates carry these scores, the former before the latter
SingleWordScores(Docs) ==
    /\ \A id \in Docs :
          /\ HasExactWord(call.data[id], call.query)
             => ScoreOf(call.data[id], call.query) = ExactScore
          /\ (~HasExactWord(call.data[id], call.query)
              /\ HasPrefixWord(call.data[id], call.query))
             => ScoreOf(call.data[id], call.query) = PrefixScore
    /\ \A i \in DOMAIN call.ranked :
          call.ranked[i].Score = ScoreOf(call.ranked[i].Text, call.query)
    /\ \A i, j \in DOMAIN call.ranked :
          (/\ HasExactWord(call.ranked[i].Text, call.query)
           /\ ~HasExactWord(call.ranked[j].Text, call.query))
          => i < j

RepeatedSearchSameResults ==
    (/\ call.op \in AllocOps
     /\ prev.op = call.op
     /\ prev.engine = call.engine
     /\ SameArguments)
    => IdScores(View(result)) = IdScores(View(held))

\* the step is a cached search of engine e
CachedCall(e) ==
    /\ calls' = calls + 1
    /\ call'.useCache
    /\ call'.engine = e

\* C11: a cached search given a corpus whose number of documents differs
\* from that of the corpus the engine has cached rebuilds the index before
\* the lookup: after the call cachedData equals the corpus passed, and the
\* results are documents of that corpus.
SizeChangeRebuilds ==
    [][\A e \in Engines :
          (/\ CachedCall(e)
           /\ Cardinality(DOMAIN rs[e].cachedData) # Cardinality(DOMAIN data))
          => /\ call'.rebuilt
             /\ ~rs'[e].cachedDataNil
             /\ rs'[e].cachedData = data
             /\ ResultsFrom(data)']_vars

\* a cached search after a cached search of a corpus of another size returned
\* a document the earlier corpus did not have
NewDocumentReturned ==
    /\ call.useCache
    /\ prev.useCache
    /\ prev.engine = call.engine
    /\ call.rebuilt
    /\ Cardinality(DOMAIN prev.data) # Cardinality(DOMAIN call.data)
    /\ \E i \in DOMAIN View(result) : View(result)[i].ID \notin DOMAIN prev.data

FreshQuickResults(op) ==
    IF op = "QuickSearch"
    THEN {View(o.slice) :
             o \in performSearchOneAlloc(NewRuntimeSearch, 0, NewContext, data, query,
                                         cap, FALSE)}
    ELSE {View(o.slice) :
             o \in performSearchZeroAlloc(NewRuntimeSearch, NewContext, data, query,
                                          Len(buffer), FALSE, buffer)}

\* C16: a search on one engine leaves the index of every other engine as it
\* was; QuickSearch and QuickSearchInto leave the index of every engine as
\* it was, leave the index maps and the index buffer of the pooled
\* RuntimeSearch untouched, and return what they would return with a
\* RuntimeSearch and a Context never used before.
EnginesIndependent ==
    [][calls' = calls + 1 =>
          /\ \A f \in Engines \ {call'.engine} : rs'[f] = rs[f]
          /\ (call'.engine = "pool") =>
                 /\ rs' = rs
                 /\ runtimeSearchPool' \subseteq {NewRuntimeSearch}
                 /\ call'.ctx # 0 => View(result') \in FreshQuickResults(call'.op)]_vars

\* a package-level search found documents after an engine had built its
\* index, and a second engine was never used
QuickSearchBesideIndex ==
    /\ prev.engine = "e1"
    /\ prev.rebuilt
    /\ call.engine = "pool"
    /\ result.len > 0
    /\ runtimeSearchPool = {NewRuntimeSearch}
    /\ ~rs["e1"].cachedDataNil
    /\ rs["e2"] = NewRuntimeSearch

\* the document identifiers of a posting list
Posted(list) == {list[i] : i \in DOMAIN list}

\* C17: after buildIndex no posting list of the word index contains the
\* same document identifier twice, even when a word occurs several times in
\* one document.
NoDuplicatePostings ==
    \A e \in Engines : \A w \in DOMAIN rs[e].cachedWordMap :
        \A i, j \in DOMAIN rs[e].cachedWordMap[w] :
            rs[e].cachedWordMap[w][i] = rs[e].cachedWordMap[w][j] => i = j

\* the word index of engine e is exact for the documents in Docs: a
\* document is posted under a word exactly when the word is one of the
\* words of its folded text
WordIndexExact(e, Docs) ==
    \A d \in Docs :
        LET words == WordsOf(Folded(rs[e].cachedData[d]))
        IN /\ \A w \in words :
                 w \in DOMAIN rs[e].cachedWordMap /\ d \in Posted(rs[e].cachedWordMap[w])
           /\ \A w \in DOMAIN rs[e].cachedWordMap :
                 d \in Posted(rs[e].cachedWordMap[w]) => w \in words

\* the normalized text of a document leaves room in indexBuffer for the
\* reserved bytes and its words fit the word arrays of buildIndex
FitsIndex(text) ==
    /\ Len(text) <= IndexBufCap - 8
    /\ Cardinality(WordSpans(Folded(text))) <= IndexWordCap

\* C18 as amended: after buildIndex, for every word W and every document d
\* of the corpus whose normalized text and word count fit the index buffer
\* and the word arrays, d is in cachedWordMap[W] if and only if W is one of
\* the words of d's normalized text.
WordIndexExactWithinCapacity ==
    \A e \in Engines :
        ~rs[e].cachedDataNil =>
            WordIndexExact(e, {d \in DOMAIN rs[e].cachedData : FitsIndex(rs[e].cachedData[d])})

\* an index was built of documents that fit, in which one word has two
\* documents and another word has one
SharedWordIndexed ==
    \E e \in Engines :
        /\ ~rs[e].cachedDataNil
        /\ \A d \in DOMAIN rs[e].cachedData : FitsIndex(rs[e].cachedData[d])
        /\ \E w \in DOMAIN rs[e].cachedWordMap :
              Cardinality(Posted(rs[e].cachedWordMap[w])) >= 2
        /\ \E w \in DOMAIN rs[e].cachedWordMap :
              Cardinality(Posted(rs[e].cachedWordMap[w])) = 1

\* C18: after buildIndex, for every word W and every document d of the
\* corpus, whatever its length and word count, d is in cachedWordMap[W] if
\* and only if W is one of the words of d's normalized text.
WordIndexExactForEveryDocument ==
    \A e \in Engines :
        ~rs[e].cachedDataNil => WordIndexExact(e, DOMAIN rs[e].cachedData)

\* the entry of the current corpus at position k of its enumeration is
\* missing from the cached corpus or has another text there
SampleDiffers(k) ==
    LET id == probe.in.order[k]
    IN \/ id \notin DOMAIN probe.in.rs.cachedData
       \/ probe.in.rs.cachedData[id] # probe.in.data[id]

\* the staleness check compared at most most entries of the current corpus
\* and reported stale exactly when one of the compared entries is missing
\* from the cache or differs
StaleWithin(most) ==
    /\ probe.out.checked <= most
    /\ probe.out.stale <=> \E k \in 1..probe.out.checked : SampleDiffers(k)

LeadLength(b) ==
    IF b < 128 THEN 1
    ELSE IF b < 192 THEN 0
    ELSE IF b < 224 THEN 2
    ELSE IF b < 240 THEN 3
    ELSE IF b < 248 THEN 4
    ELSE 0

\* C20: decodeRune on non-empty input returns a consumed length of at least
\* 1, and returns (U+FFFD, 1) whenever the input is shorter than the
\* sequence its leading byte implies or the leading byte is not a valid
\* UTF-8 lead byte.
DecodeRuneRejectsMalformed ==
    (probe.done /\ Len(probe.in) > 0) =>
        /\ probe.out[2] >= 1
        /\ (Len(probe.in) < LeadLength(probe.in[1]) \/ LeadLength(probe.in[1]) = 0)
              => probe.out = <<65533, 1>>

\* a goroutine is about to read cachedData, cachedWordMap or cachedTrigrams:
\* in the staleness check, in findCandidates, in scoreCandidates
ReadingIndex(g) == goroutines[g].pc \in {"checking", "finding", "reading"}

\* a goroutine is inside buildIndex, between the lock taken and released
BuildingIndex(g) == goroutines[g].pc \in {"clearing", "filling", "built"}

\* C12: with concurrent cached searches on one shared engine no reader of
\* the index (staleness check, findCandidates, the text lookup of
\* scoreCandidates) reads the maps while buildIndex clears or repopulates
\* them: a reader holds the read lock, the builder the write lock, and the
\* two are never held together.
ReadersExcludeBuilder ==
    \A g \in Goroutines :
        /\ ReadingIndex(g) =>
              /\ g \in mu.readers
              /\ \A h \in Goroutines : ~BuildingIndex(h)
        /\ BuildingIndex(g) =>
              /\ mu.writer = g
              /\ mu.readers = {}
              /\ \A h \in Goroutines \ {g} : ~BuildingIndex(h)

\* a goroutine is filling the index while another, which has found its
\* candidates in the index before, waits to read the text of the next one
BuilderKeepsReaderOut ==
    \E g, h \in Goroutines :
        /\ goroutines[g].pc = "filling"
        /\ goroutines[h].pc = "score"
        /\ moreCandidates(goroutines[h])

\* a goroutine is about to call RLock or Lock on rs.mu, or waits inside Lock
AcquiringLock(g) == goroutines[g].pc \in {"check", "find", "score", "build", "locking"}

\* C13: under fair scheduling every search call on a shared engine
\* completes, and a goroutine that calls RLock or Lock on the index lock
\* holds it neither as reader nor as writer.
EveryCallCompletes ==
    /\ \A g \in Goroutines :
          (goroutines[g].pc # "idle") ~> (goroutines[g].pc = "idle")
    /\ [](\A g \in Goroutines :
             AcquiringLock(g) => (g \notin mu.readers /\ mu.writer # g))

\* a goroutine waits in Lock for a reader to leave while the other
\* goroutine, holding the read lock, has yet to finish its call
WriterWaitsForReader ==
    \E g, h \in Goroutines :
        /\ goroutines[g].pc = "locking"
        /\ h \in mu.readers
        /\ ReadingIndex(h)

\* the six counters of a context are zero
IsReset(c) == reset(c) = c

\* the context c with every array cell beyond its counter zeroed: what c
\* would be had the same statements run on a context never used before
Clean(c) ==
    [queryNormalized |-> Store(NewContext.queryNormalized,
                               SubSeq(c.queryNormalized, 1, c.queryNormLen)),
     docNormalized   |-> Store(NewContext.docNormalized,
                               SubSeq(c.docNormalized, 1, c.docNormLen)),
     queryNormLen    |-> c.queryNormLen,
     docNormLen      |-> c.docNormLen,
     queryWordStarts |-> Store(NewContext.queryWordStarts,
                               SubSeq(c.queryWordStarts, 1, c.queryWordCount)),
     queryWordEnds   |-> Store(NewContext.queryWordEnds,
                               SubSeq(c.queryWordEnds, 1, c.queryWordCount)),
     queryWordCount  |-> c.queryWordCount,
     docWordStarts   |-> Store(NewContext.docWordStarts,
                               SubSeq(c.docWordStarts, 1, c.docWordCount)),
     docWordEnds     |-> Store(NewContext.docWordEnds,
                               SubSeq(c.docWordEnds, 1, c.docWordCount)),
     docWordCount    |-> c.docWordCount,
     candidateIDs    |-> Store(NewContext.candidateIDs,
                               SubSeq(c.candidateIDs, 1, c.candidateCount)),
     candidateTexts  |-> Store(NewContext.candidateTexts,
                               SubSeq(c.candidateTexts, 1, c.candidateCount)),
     candidateScores |-> Store(NewContext.candidateScores,
                               SubSeq(c.candidateScores, 1, c.candidateCount)),
     candidateCount  |-> c.candidateCount,
     candidateSet    |-> Store(NewContext.candidateSet,
                               SubSeq(c.candidateSet, 1, c.candidateSetLen)),
     candidateSetLen |-> c.candidateSetLen]

\* no two calls hold the same context, a goroutine holds a context exactly
\* while it is in a call, and every context in the pool has its six counters
\* at zero
ContextsHeldByOne ==
    /\ \A g, h \in Goroutines :
          (g # h /\ goroutines[g].has /\ goroutines[h].has)
              => goroutines[g].ctx # goroutines[h].ctx
    /\ \A g \in Goroutines :
          /\ goroutines[g].has <=> goroutines[g].pc # "idle"
          /\ goroutines[g].has => goroutines[g].ctx \in DOMAIN contextPool
    /\ \A i \in DOMAIN contextPool \ HeldContexts(goroutines) : IsReset(contextPool[i])

\* the statement goroutine g has just run left what it would have left with
\* a context never used before: a call starts with a context whose counters
\* are zero, puts it back with its counters at zero, and what it computes in
\* between and returns does not depend on what the arrays held before
StepLikeFresh(g) ==
    LET rec == goroutines[g]
        new == goroutines'[g]
    IN CASE rec.pc = "idle" ->
                /\ IsReset(gotContext(new.ctx))
                /\ Clean(new.c) = Clean(prepareQuery(NewContext, new.query))
         [] rec.pc = "finish" ->
                /\ new.out \in finished(rec, Clean(rec.c))
                /\ IsReset(contextPool'[rec.ctx])
                /\ rec.ctx \notin HeldContexts(goroutines')
         [] OTHER ->
                Clean(new.c) \in {Clean(x) : x \in contextStep(rec, Clean(rec.c),
                                                                rs[SharedEngine])}

\* C14: a Context is held by at most one call at a time; every call puts
\* it back with all six counters at zero; every Context obtained from the
\* pool starts with its counters at zero; and no result depends on what the
\* buffers of the Context held before the call.
ContextDiscipline ==
    /\ []ContextsHeldByOne
    /\ [][\A g \in Goroutines :
             goroutines'[g] # goroutines[g] => StepLikeFresh(g)]_vars

\* two calls were made one after the other with the same context: the
\* second found in it what the first had left, and returned results
ContextUsedTwice ==
    /\ calls = 2
    /\ Len(contextPool) = 1
    /\ contextPool[1] # NewContext
    /\ \A g \in Goroutines : goroutines[g].pc = "idle"
    /\ \E g \in Goroutines : goroutines[g].out # <<>>

\* ------------------------------------------------------------------------
\* normalizeText and splitWords on their own (SpecText)
\* ------------------------------------------------------------------------

Normalized == probe.out.step >= 1

\* normalizeText with a buffer that the text cannot fill
normalizeAll(t) == normalizeText(t, 4 * Len(t) + 8)

\* C21: the output of normalizeText is the normalization of a prefix of the
\* input (no code point is dropped while a later one is kept) and its
\* length never exceeds the buffer length minus 4.
NormalizeKeepsPrefix ==
    Normalized =>
        /\ \E k \in 0..Len(probe.in.text) :
              probe.out.norm = normalizeAll(Sub(probe.in.text, 0, k))
        /\ Len(probe.out.norm) <= probe.in.bufLen - 4

IsASCII(t) == \A i \in 1..Len(t) : t[i] < 128

\* C22: for every ASCII text that fits the buffer, normalizing the output
\* of normalizeText again gives the same bytes.
NormalizeIdempotentASCII ==
    (probe.out.step >= 2 /\ IsASCII(probe.in.text)
        /\ Len(probe.in.text) <= probe.in.bufLen - 4)
        => probe.out.again = probe.out.norm

\* an ASCII text with a capital letter that fits has been normalized twice
NormalizedTwiceFolded ==
    /\ probe.out.step >= 2
    /\ IsASCII(probe.in.text)
    /\ Len(probe.in.text) <= probe.in.bufLen - 4
    /\ \E i \in 1..Len(probe.in.text) : probe.in.text[i] = 65
    /\ probe.out.norm # probe.in.text

\* the maximal non-empty runs of non-boundary bytes of t, in increasing order
MaximalRuns(t) ==
    LET IsRun(a, b) ==
            /\ a < b
            /\ \A i \in a..(b - 1) : At(t, i) \notin wordBoundaryLUT
            /\ (a = 0 \/ At(t, a - 1) \in wordBoundaryLUT)
            /\ (b = Len(t) \/ At(t, b) \in wordBoundaryLUT)
        Starts == {a \in 0..Len(t) : \E b \in 0..Len(t) : IsRun(a, b)}
        EndOf(a) == CHOOSE b \in 0..Len(t) : IsRun(a, b)
        Has(a) == a - 1 \in Starts
    IN [k \in 1..Cardinality(Starts) |->
           LET a == SelectSeq([i \in 1..(Len(t) + 1) |-> i], Has)[k] - 1
           IN <<a, EndOf(a)>>]

\* C23: splitWords emits, in increasing order, exactly the maximal non-empty
\* runs of non-boundary bytes of its input up to the capacity of the span
\* arrays: every span has start < end, holds no boundary byte, is delimited
\* on both sides by a boundary byte or an end of the input, spans do not
\* overlap, and the count never exceeds min(len(starts), len(ends)).
SplitWordsMaximalRuns ==
    probe.out.step = 3 =>
        LET t == probe.out.norm
            spans == probe.out.spans
            runs == MaximalRuns(t)
        IN /\ Len(spans) <= probe.in.maxWords
           /\ spans = SubSeq(runs, 1, Min(Len(runs), probe.in.maxWords))
           /\ \A k \in 1..Len(spans) :
                 /\ spans[k][1] < spans[k][2]
                 /\ \A i \in spans[k][1]..(spans[k][2] - 1) :
                       At(t, i) \notin wordBoundaryLUT
                 /\ (spans[k][1] = 0 \/ At(t, spans[k][1] - 1) \in wordBoundaryLUT)
                 /\ (spans[k][2] = Len(t) \/ At(t, spans[k][2]) \in wordBoundaryLUT)
                 /\ (k > 1 => spans[k - 1][2] < spans[k][1])

\* a text with consecutive boundary bytes and more words than the span
\* arrays hold has been split
SplitDroppedWords ==
    /\ probe.out.step = 3
    /\ Len(MaximalRuns(probe.out.norm)) > probe.in.maxWords
    /\ \E i \in 1..(Len(probe.out.norm) - 1) :
          /\ probe.out.norm[i] \in wordBoundaryLUT
          /\ probe.out.norm[i + 1] \in wordBoundaryLUT
    /\ Len(probe.out.spans) = probe.in.maxWords

\* ------------------------------------------------------------------------
\* addToCandidateSet on its own (SpecSet)
\* ------------------------------------------------------------------------

\* ctx.candidateSet[:ctx.candidateSetLen]
SetOf(ctx) == SubSeq(ctx.candidateSet, 1, ctx.candidateSetLen)

StrictlyAscending(seq) == \A i \in 1..(Len(seq) - 1) : seq[i] < seq[i + 1]

\* what one call may do to the set: keep what it held, add only offered
\* identifiers, add every offered identifier while there is room, and leave
\* a full set as it is
SetStep(before, after, docIDs) ==
    /\ Posted(SetOf(before)) \subseteq Posted(SetOf(after))
    /\ Posted(SetOf(after)) \subseteq Posted(SetOf(before)) \cup Posted(docIDs)
    /\ after.candidateSetLen < Len(after.candidateSet)
          => Posted(docIDs) \subseteq Posted(SetOf(after))
    /\ before.candidateSetLen = Len(before.candidateSet)
          => after.candidateSet = before.candidateSet
             /\ after.candidateSetLen = before.candidateSetLen

\* C25: after every insertion and for every sequence of posting lists the
\* candidate set is strictly ascending by identifier (hence free of
\* duplicates) and never longer than its capacity; an identifier offered
\* when the set is full is dropped and the set is left unchanged.
CandidateSetSortedBounded ==
    /\ [](StrictlyAscending(SetOf(probe.out))
          /\ probe.out.candidateSetLen <= Len(probe.out.candidateSet))
    /\ [][probe' # probe => SetStep(probe.out, probe.out', probe.in'.docIDs)]_vars

\* a full set has been offered an identifier it does not hold
FullSetOffered ==
    /\ probe.in.lists >= 3
    /\ probe.out.candidateSetLen = Len(probe.out.candidateSet)
    /\ \E id \in Posted(probe.in.docIDs) : id \notin Posted(SetOf(probe.out))

\* ------------------------------------------------------------------------
\* findCandidates on its own (SpecFind)
\* ------------------------------------------------------------------------

\* the query words of a prepared context, in query order
QueryWordsOf(ctx) == [i \in 1..ctx.queryWordCount |-> queryWord(ctx, i - 1)]

\* the first of the indexed query words with the fewest postings, <<>> when
\* no query word is indexed
RarestWord(ctx, index) ==
    LET qw == QueryWordsOf(ctx)
        Indexed == {i \in 1..Len(qw) : qw[i] \in DOMAIN index.cachedWordMap}
    IN IF Indexed = {} THEN <<>>
       ELSE qw[CHOOSE i \in Indexed :
                 \A j \in Indexed :
                    \/ Len(index.cachedWordMap[qw[i]]) < Len(index.cachedWordMap[qw[j]])
                    \/ /\ Len(index.cachedWordMap[qw[i]]) = Len(index.cachedWordMap[qw[j]])
                       /\ i <= j]

\* the identifiers that the query words contribute
WordUnion(ctx, index) ==
    LET qw == QueryWordsOf(ctx)
        m == index.cachedWordMap
        rarest == RarestWord(ctx, index)
        Near(w, q) ==
            \/ IsProperPrefix(w, q) /\ Len(q) - Len(w) <= 10
            \/ IsProperPrefix(q, w) /\ Len(w) - Len(q) <= 10
    IN (IF rarest = <<>> THEN {} ELSE Posted(m[rarest]))
       \cup UNION {Posted(m[w]) :
                      w \in {v \in DOMAIN m :
                                \E i \in 1..Len(qw) :
                                   qw[i] # rarest /\ (v = qw[i] \/ Near(v, qw[i]))}}

RECURSIVE TrigramUnion(_, _, _, _)
\* the identifiers posted under the query trigrams at offsets i, i+2, ...,
\* up to the first offset that brings the set above 100
TrigramUnion(q, m, i, acc) ==
    IF i > Len(q) - 3 THEN acc
    ELSE LET t == Sub(q, i, i + 3) IN
         IF t \in DOMAIN m
         THEN IF Cardinality(acc \cup Posted(m[t])) > 100
              THEN acc \cup Posted(m[t])
              ELSE TrigramUnion(q, m, i + 2, acc \cup Posted(m[t]))
         ELSE TrigramUnion(q, m, i + 2, acc)

\* the candidates the claim describes for a prepared context and an index
ExpectedCandidates(ctx, index) ==
    LET U == WordUnion(ctx, index) IN
    IF U = {} /\ ctx.queryNormLen >= 3 /\ ctx.queryNormLen <= 100
    THEN TrigramUnion(queryBytes(ctx), index.cachedTrigrams, 0, {})
    ELSE U

\* C24: in cached mode the candidate set produced by findCandidates is, up
\* to capacity, the union of the postings of the rarest indexed query word
\* (the first of those with the fewest postings), of the exact postings of
\* every other query word and of every indexed word that is a proper prefix
\* of it or has it as a proper prefix with a length difference of at most
\* 10 bytes, and of trigram postings (query offsets 0, 2, 4, ..., stopping
\* once more than 100 candidates are held) only when that union is empty
\* and the normalized query length is between 3 and 100.
CandidatesAreTheUnion ==
    probe.done =>
        LET E == ExpectedCandidates(probe.in.ctx, probe.in.rs)
            R == Posted(SetOf(probe.out))
            room == Len(probe.out.candidateSet)
        IN IF Cardinality(E) <= room THEN R = E
           ELSE R \subseteq E /\ Cardinality(R) = room

\* findCandidates has returned the documents of a nearby longer word but
\* not those of an indexed word more than 10 bytes longer
PrefixWithinTenFound ==
    /\ probe.done
    /\ 5 \in Posted(SetOf(probe.out))
    /\ 6 \in DOMAIN probe.in.rs.cachedData
    /\ 6 \notin Posted(SetOf(probe.out))
    /\ Len(probe.out.candidateSet) = 8

\* ------------------------------------------------------------------------
\* scoreDocument on its own (SpecScore)
\* ------------------------------------------------------------------------

\* the normalized query of the probe and its words, in query order
ProbeQuery == queryBytes(probe.in.ctx)

ProbeQueryWords ==
    LET r == MaximalRuns(ProbeQuery)
    IN [k \in 1..Len(r) |-> Sub(ProbeQuery, r[k][1], r[k][2])]

\* the words of the probe's document
ProbeDocWords == WordsOf(Folded(probe.in.text))

\* the best score of a query word over a set of document words
BestMatch(w, D) ==
    IF w \in D THEN ExactScore
    ELSE IF \E d \in D : IsProperPrefix(w, d) \/ IsProperPrefix(d, w) THEN PrefixScore
    ELSE 0

RECURSIVE SumBest(_, _, _)
SumBest(qw, D, k) == IF k > Len(qw) THEN 0 ELSE BestMatch(qw[k], D) + SumBest(qw, D, k + 1)

\* the number of query words with an exact match
ExactCount(qw, D) == Cardinality({k \in 1..Len(qw) : qw[k] \in D})

\* every query word is held by the context
QueryFitsScratch == Len(ProbeQueryWords) <= probe.in.ctx.queryWordCount

\* the score is the sum of the best match of each query word: 2n + 0.5(n-1)
\* when all n words match exactly; otherwise the sum plus 0.5 for each exact
\* match beyond the first plus at most the substring (0.3) and cross-word
\* (0.8) scores, and nothing more than the sum and that bonus when a single
\* word matched or the sum has reached the word count
WordScoresSummed ==
    LET qw == ProbeQueryWords
        n  == Len(qw)
        S  == SumBest(qw, ProbeDocWords, 1)
        E  == ExactCount(qw, ProbeDocWords)
        B  == IF E > 1 THEN (E - 1) * ExactBonus ELSE 0
        score == probe.out.score
    IN IF E = n THEN score = n * ExactScore + (n - 1) * ExactBonus
       ELSE /\ score >= S + B
            /\ score <= S + B + (3 * ScoreUnit) \div 10 + (8 * ScoreUnit) \div 10
            /\ ((n < 2 /\ S > 0) \/ S + B >= n * ScoreUnit) => score = S + B

SampledOffsets(q) ==
    LET s == Max(1, Len(q) \div 10)
    IN {i \in 0..(Len(q) - 3) : i % s = 0}

\* the sampled offsets whose trigram occurs in the normalized document
MatchedOffsets(q, d) ==
    {i \in SampledOffsets(q) :
        \E j \in 0..(Len(d) - 3) : Sub(d, j, j + 3) = Sub(q, i, i + 3)}

\* the document as normalizeText leaves it in docNormalized
ProbeDoc == SubSeq(Folded(probe.in.text), 1, Min(Len(probe.in.text), DocBufCap - 4))

\* C27: the substring-affinity score added by scoreSubstring equals 0.3
\* times the fraction of the sampled query trigrams (offsets 0, s, 2s, ...
\* with s = max(1, queryLength/10)) that occur in the normalized document;
\* in particular it is exactly 0.3 when every sampled trigram occurs. (The
\* score of a one-word query of at least 3 bytes with no exact or prefix
\* match is that substring score.)
SubstringScoreIsFraction ==
    (/\ probe.out.step >= 1
     /\ Len(ProbeQueryWords) = 1
     /\ QueryFitsScratch
     /\ FitsScratch(probe.in.text)
     /\ Len(ProbeQuery) >= 3
     /\ SumBest(ProbeQueryWords, ProbeDocWords, 1) = 0)
        => 10 * Cardinality(SampledOffsets(ProbeQuery)) * probe.out.score
               = 3 * Cardinality(MatchedOffsets(ProbeQuery, ProbeDoc)) * ScoreUnit

NoCommonByte ==
    \A i \in 1..Len(ProbeDoc) : \A k \in 1..Len(ProbeQuery) : ProbeDoc[i] # ProbeQuery[k]

\* C29: the byte-presence early exit in scoreDocument never changes a
\* score: when the normalized document shares no byte with the normalized
\* query, the full scoring (exact, prefix, substring-affinity and cross-word
\* steps) also gives 0, and otherwise the exit is not taken.
ByteExitKeepsScore ==
    probe.out.step = 2 =>
        /\ probe.out.full = probe.out.score
        /\ NoCommonByte => probe.out.full = 0

\* a document with words has been scored in full against a query of two
\* words of three bytes with which it shares no byte
DisjointScoredInFull ==
    /\ probe.out.step = 2
    /\ NoCommonByte
    /\ Len(ProbeQueryWords) = 2
    /\ \A k \in 1..2 : Len(ProbeQueryWords[k]) >= 3
    /\ \E w \in ProbeDocWords : Len(w) >= 3

\* ------------------------------------------------------------------------
\* the sort paths as permutations (SpecSort)
\* ------------------------------------------------------------------------

\* the candidate record at index i (1-based) of a context
RecordAt(ctx, i) == <<ctx.candidateIDs[i], ctx.candidateTexts[i], ctx.candidateScores[i]>>

\* how many of the first candidateCount records of ctx equal rec
RecordCount(ctx, rec) ==
    Cardinality({i \in 1..ctx.candidateCount : RecordAt(ctx, i) = rec})

\* after holds the records of before, each as often, at the indexes below
\* candidateCount, and what before held at the indexes from candidateCount
Permuted(before, after) ==
    /\ after.candidateCount = before.candidateCount
    /\ Len(after.candidateIDs) = Len(before.candidateIDs)
    /\ \A i \in 1..before.candidateCount :
          /\ RecordCount(after, RecordAt(before, i)) = RecordCount(before, RecordAt(before, i))
          /\ RecordCount(before, RecordAt(after, i)) = RecordCount(after, RecordAt(after, i))
    /\ \A i \in (before.candidateCount + 1)..Len(before.candidateIDs) :
          RecordAt(after, i) = RecordAt(before, i)

\* C30: each of the three sort paths only permutes the candidate records:
\* after sortCandidates the multiset of (id, text, score) triples at
\* indices 0..candidateCount-1 equals the one before, every id is still
\* paired with its own text and score, and entries at or beyond
\* candidateCount are untouched.
SortPermutesRecords ==
    probe.done =>
        /\ Permuted(probe.in, probe.out)
        /\ Permuted(probe.in, insertionSort(probe.in, 0, probe.in.candidateCount - 1))
        /\ Permuted(probe.in, shellSort(probe.in))
        /\ Permuted(probe.in, quickSort(probe.in, 0, probe.in.candidateCount - 1))

\* a quicksort has moved records that lie before two records beyond
\* candidateCount
SortMovedRecords ==
    /\ probe.done
    /\ probe.in.candidateCount > 50
    /\ Len(probe.in.candidateIDs) > probe.in.candidateCount
    /\ \E i \in 1..probe.in.candidateCount : RecordAt(probe.out, i) # RecordAt(probe.in, i)

\* ------------------------------------------------------------------------
\* cached searches with different corpora on one engine (SpecShared)
\* ------------------------------------------------------------------------

\* the goroutine's search found the index stale and rebuilt it from the
\* corpus it was given (searchWithCache lines 178-180)
Rebuilt(g) == goroutines[g].stale /\ goroutines[g].pc \notin {"checked", "build",
                                         "locking", "clearing", "filling"}

\* the goroutine is about to look up candidates (findCandidates) or a
\* candidate's text (scoreCandidates) in the index
LooksUp(g) == goroutines[g].pc \in {"finding", "reading"}

\* every lookup of a search that rebuilt the index goes to an index built
\* from the corpus the search was given
LookupInOwnIndex ==
    \A g \in Goroutines :
        Rebuilt(g) /\ LooksUp(g) => rs[SharedEngine].cachedData = goroutines[g].data

\* every result a search that rebuilt the index has returned is a document
\* of the corpus the search was given
ResultsFromOwnCorpus ==
    \A g \in Goroutines :
        Rebuilt(g) /\ goroutines[g].pc = "idle" =>
            \A i \in 1..Len(goroutines[g].out) :
                /\ goroutines[g].out[i].ID \in DOMAIN goroutines[g].data
                /\ goroutines[g].out[i].Text = goroutines[g].data[goroutines[g].out[i].ID]

\* C28: a cached search given corpus C uses, from its staleness check to
\* the end of scoring, an index that reflects C: with other goroutines
\* running cached searches with different corpora on the same engine, no
\* interleaving lets the search look up candidates in, or return
\* identifiers or texts from, an index rebuilt from a different corpus.
CachedSearchUsesOwnCorpus == LookupInOwnIndex /\ ResultsFromOwnCorpus

====
